---- MODULE Spec2Model ----
(***************************************************************************)
(* Gain-trend monitoring of cos_monitoring/cci/findbad.py: time_trends,    *)
(* its pool workers find_flagged and measure_slopes, and time_fitting.     *)
(*                                                                         *)
(* Numbers.  Gain values are held in half gain units (a stored 7 is the    *)
(* gain 3.5), expstart in whole days (MJD).  The floating point arithmetic *)
(* of numpy/scipy is modelled by exact rational arithmetic on integers: a  *)
(* rational is a record [num, den] with den > 0.  Values written to the    *)
(* result tables pass through Round5, Python's round(v, 5), and are held   *)
(* as decimals [neg, int, e5] (sign, whole part, fifth-decimal units).     *)
(***************************************************************************)
EXTENDS Integers, Sequences, FiniteSets, Bags, TLC

(***************************************************************************)
(* Program constants                                                       *)
(***************************************************************************)
Y_BINNING == 2
X_BINNING == 8
GainLimit == 3
CountsLimit == 30
EraStart == 55197
SpecTop == 600
SpecBottom == 400
MinSamples == 5
MinClipped == 4
TolInverse == 100000
MaxIter == 1000
ImageRows == 1024
ImageCols == 16384

(***************************************************************************)
(* Bounds of the model                                                     *)
(***************************************************************************)
MaxRuns == 2
MaxCpu == 2
NumEpochs == 6

\* a gain of n units, in the half units the model stores
HalfUnits(n) == 2 * n

BandHi == SpecTop \div Y_BINNING
BandLo == SpecBottom \div Y_BINNING

(***************************************************************************)
(* Arithmetic helpers                                                      *)
(***************************************************************************)
Abs(a) == IF a < 0 THEN 0 - a ELSE a

RECURSIVE Gcd(_, _)
Gcd(a, b) == IF b = 0 THEN a ELSE Gcd(b, a % b)

RECURSIVE Sum(_)
Sum(s) == IF s = <<>> THEN 0 ELSE Head(s) + Sum(Tail(s))

RECURSIVE GcdAll(_)
GcdAll(s) == IF s = <<>> THEN 0 ELSE Gcd(Head(s), GcdAll(Tail(s)))

RECURSIVE MinOf(_)
MinOf(s) == IF Len(s) = 1 THEN s[1]
            ELSE LET m == MinOf(Tail(s)) IN IF s[1] < m THEN s[1] ELSE m

\* the subsequence of s at the positions where keep is TRUE
RECURSIVE Select(_, _)
Select(s, keep) ==
    IF s = <<>> THEN <<>>
    ELSE IF Head(keep) THEN <<Head(s)>> \o Select(Tail(s), Tail(keep))
         ELSE Select(Tail(s), Tail(keep))

\* the rational n/d in lowest terms, den > 0
Rat(n, d) ==
    LET g == Gcd(Abs(n), Abs(d))
        s == IF d < 0 THEN 0 - 1 ELSE 1
    IN [num |-> s * (n \div g), den |-> s * (d \div g)]

RInt(n) == [num |-> n, den |-> 1]

RAdd(p, q) ==
    LET g == Gcd(p.den, q.den)
    IN Rat(p.num * (q.den \div g) + q.num * (p.den \div g), (p.den \div g) * q.den)

RNeg(p) == [num |-> 0 - p.num, den |-> p.den]

RSub(p, q) == RAdd(p, RNeg(q))

\* p and q in lowest terms; common factors are cancelled across before multiplying
RMul(p, q) ==
    LET g1 == Gcd(Abs(p.num), q.den)
        g2 == Gcd(Abs(q.num), p.den)
    IN IF p.num = 0 \/ q.num = 0 THEN RInt(0)
       ELSE Rat((p.num \div g1) * (q.num \div g2), (p.den \div g2) * (q.den \div g1))

\* q # 0
RDiv(p, q) == RMul(p, Rat(q.den, q.num))

RAbs(p) == [num |-> Abs(p.num), den |-> p.den]

\* p < 1/k, for p >= 0 and k > 0
RBelowInverse(p, k) == p.num <= (p.den - 1) \div k

\* five decimal digits of rem/den by long division: <<digits as a number, last remainder>>
RECURSIVE Digits(_, _, _, _)
Digits(rem, den, k, acc) ==
    IF k = 0 THEN <<acc, rem>>
    ELSE Digits((rem * 10) % den, den, k - 1, acc * 10 + (rem * 10) \div den)

\* round(q, 5): nearest multiple of 1e-5, a half rounding away from zero
Round5(q) ==
    LET a    == Abs(q.num)
        dg   == Digits(a % q.den, q.den, 5, 0)
        up   == 2 * dg[2] >= q.den
        e5   == IF up THEN dg[1] + 1 ELSE dg[1]
        int  == IF e5 = 100000 THEN a \div q.den + 1 ELSE a \div q.den
        frac == IF e5 = 100000 THEN 0 ELSE e5
    IN [neg |-> q.num < 0 /\ (int > 0 \/ frac > 0), int |-> int, e5 |-> frac]

Dec(n) == [neg |-> FALSE, int |-> n, e5 |-> 0]
DecIsZero(d) == d.int = 0 /\ d.e5 = 0

(***************************************************************************)
(* The Gain table and its queries.  A Gain row is                          *)
(* [segment, dethv, x, y, gain, counts, expstart]; the table is a sequence *)
(* (surrogate id = position), and a query returns rows in table order.     *)
(***************************************************************************)
RECURSIVE SetToSortedSeq(_)
SetToSortedSeq(S) ==
    IF S = {} THEN <<>>
    ELSE LET m == CHOOSE c \in S : \A d \in S :
                      c[1] < d[1] \/ (c[1] = d[1] /\ c[2] <= d[2])
         IN <<m>> \o SetToSortedSeq(S \ {m})

Column(rows, f) == [i \in 1..Len(rows) |-> rows[i][f]]

\* faulty variant: the edges of the band are excluded too
OutOfBandEdges(y) == (y >= SpecTop \div Y_BINNING) \/ (y <= SpecBottom \div Y_BINNING)

\* (y > 600//Y_BINNING) or (y < 400//Y_BINNING)
OutOfBand(y) == (y > SpecTop \div Y_BINNING) \/ (y < SpecBottom \div Y_BINNING)

\* faulty variant: a gain of exactly 3.0 is not low
BelowLimitStrict(g) == g < HalfUnits(GainLimit)

BelowLimit(g) == g <= HalfUnits(GainLimit)

\* faulty variant: the counts of a sample do not matter
EnoughCountsAny(c) == TRUE

EnoughCounts(c) == c >= CountsLimit

AfterEra(t) == t > EraStart

(***************************************************************************)
(* find_flagged                                                            *)
(***************************************************************************)
\* all_coords of find_flagged: distinct (x, y) with gain <= 3 and counts >= 30
FlaggedCoords(g, segment, hvlevel) ==
    SetToSortedSeq({<<g[i].x, g[i].y>> : i \in {j \in 1..Len(g) :
        /\ g[j].segment = segment
        /\ g[j].dethv = hvlevel
        /\ BelowLimit(g[j].gain)
        /\ EnoughCounts(g[j].counts)}})

\* faulty variant: the samples of every combination at (x, y) are read
FlaggedResultsAnySegment(g, segment, hvlevel, x, y) ==
    SelectSeq(g, LAMBDA r : r.x = x /\ r.y = y /\ AfterEra(r.expstart))

\* the per-coordinate query of find_flagged
FlaggedResults(g, segment, hvlevel, x, y) ==
    SelectSeq(g, LAMBDA r : /\ r.segment = segment
                            /\ r.dethv = hvlevel
                            /\ r.x = x
                            /\ r.y = y
                            /\ AfterEra(r.expstart))

\* faulty variant: the last low sample instead of the earliest
MJD_badLast(expstarts) == expstarts[Len(expstarts)]

\* all_expstart[below_thresh].min()
MJD_bad(expstarts) == MinOf(expstarts)

\* one pass of find_flagged's loop body: the rows it adds to the session
FlaggedBody(g, segment, hvlevel, x, y) ==
    IF OutOfBand(y) THEN <<>>
    ELSE LET results == FlaggedResults(g, segment, hvlevel, x, y)
             below_thresh == SelectSeq(results, LAMBDA r : BelowLimit(r.gain))
         IN IF Len(below_thresh) > 0
            THEN <<[mjd |-> Round5(RInt(MJD_bad(Column(below_thresh, "expstart")))),
                    segment |-> segment, dethv |-> hvlevel, x |-> x, y |-> y]>>
            ELSE <<>>

(***************************************************************************)
(* time_fitting                                                            *)
(*                                                                         *)
(* The least-squares sums are taken on the abscissa u = (x - x0)/st, x0    *)
(* the smallest x and st the common step of the x - x0, which keeps the    *)
(* integers small; slope, intercept, residuals and the spread of the       *)
(* fitted values are then expressed for x exactly.                         *)
(***************************************************************************)
\* the sums of a degree-1 least-squares fit of y on u:
\* slope = nm/d and intercept = (sy*d - nm*su)/(n*d), in u
LeastSquares(u, y) ==
    LET n   == Len(u)
        su  == Sum(u)
        sy  == Sum(y)
        suu == Sum([i \in 1..n |-> u[i] * u[i]])
        suy == Sum([i \in 1..n |-> u[i] * y[i]])
    IN [n |-> n, su |-> su, sy |-> sy, d |-> n * suu - su * su, nm |-> n * suy - su * sy]

\* scipy.polyfit(x, y, 1) for x = x0 + st*u: (slope, intercept)
Polyfit(ls, x0, st) ==
    [slope     |-> Rat(ls.nm, ls.d * st),
     intercept |-> Rat((ls.sy * ls.d - ls.nm * ls.su) * st - ls.nm * x0 * ls.n,
                       ls.n * ls.d * st)]

\* faulty variant: the points far from the first line are the ones kept
OutsideSigma(ls, ui, yi) ==
    LET r == ls.nm * (ls.n * ui - ls.su) + ls.d * (ls.sy - ls.n * yi)
    IN 4 * r * r >= 9 * ls.nm * ls.nm * ls.d

\* np.abs(fit - y_fit) < 1.5 * fit_sigma at one point, fit_sigma = fit.std() the
\* (population) standard deviation of the fitted values polyval(x_fit):
\*   fit - y = r / (n*d)   with r = nm*(n*u - su) + d*(sy - n*y)
\*   fit.std()^2 = slope^2 * var(u) = nm^2 / (d * n^2)
\* so that (fit - y)^2 < 2.25 * fit.std()^2  iff  4*r^2 < 9*nm^2*d
WithinSigma(ls, ui, yi) ==
    LET r == ls.nm * (ls.n * ui - ls.su) + ls.d * (ls.sy - ls.n * yi)
    IN 4 * r * r < 9 * ls.nm * ls.nm * ls.d

\* faulty variant: three retained points are enough
EnoughClipped3(k) == ~(k < MinClipped - 1)

EnoughClipped(k) == ~(k < MinClipped)

\* faulty variant: the point presented last is never clipped
time_fittingKeepLast(x_fit, y_fit) ==
    LET n    == Len(x_fit)
        x0   == MinOf(x_fit)
        g    == GcdAll([i \in 1..n |-> x_fit[i] - x0])
        st   == IF g = 0 THEN 1 ELSE g
        u    == [i \in 1..n |-> (x_fit[i] - x0) \div st]
        ls   == LeastSquares(u, y_fit)
        include_index == [i \in 1..n |-> i = n \/ WithinSigma(ls, u[i], y_fit[i])]
        u_clipped == Select(u, include_index)
        y_fit_clipped == Select(y_fit, include_index)
    IN IF ~EnoughClipped(Len(u_clipped))
       THEN [success |-> FALSE, first |-> Polyfit(ls, x0, st), include_index |-> include_index]
       ELSE [success |-> TRUE, first |-> Polyfit(ls, x0, st), include_index |-> include_index,
             parameters |-> Polyfit(LeastSquares(u_clipped, y_fit_clipped), x0, st)]

time_fitting(x_fit, y_fit) ==
    LET n    == Len(x_fit)
        x0   == MinOf(x_fit)
        g    == GcdAll([i \in 1..n |-> x_fit[i] - x0])
        st   == IF g = 0 THEN 1 ELSE g
        u    == [i \in 1..n |-> (x_fit[i] - x0) \div st]
        ls   == LeastSquares(u, y_fit)
        include_index == [i \in 1..n |-> WithinSigma(ls, u[i], y_fit[i])]
        u_clipped == Select(u, include_index)
        y_fit_clipped == Select(y_fit, include_index)
    IN IF ~EnoughClipped(Len(u_clipped))
       THEN [success |-> FALSE, first |-> Polyfit(ls, x0, st), include_index |-> include_index]
       ELSE [success |-> TRUE, first |-> Polyfit(ls, x0, st), include_index |-> include_index,
             parameters |-> Polyfit(LeastSquares(u_clipped, y_fit_clipped), x0, st)]

(***************************************************************************)
(* scipy.optimize.newton(f, x0, fprime, args, tol=1e-5, maxiter=1000) for  *)
(* f(x) = a*x + b - 3 and fprime = a (here in half gain units, a*x + b - 6 *)
(* over a: the same step).  On a zero derivative the installed SciPy       *)
(* either raises RuntimeError (raises = TRUE) or warns and returns the     *)
(* current iterate (raises = FALSE).                                       *)
(***************************************************************************)
\* faulty variant: the seed is returned as the root
newtonSeed(a, b, p0, iter, raises) == [converged |-> TRUE, value |-> p0, iters |-> iter + 1]

RECURSIVE newton(_, _, _, _, _)
newton(a, b, p0, iter, raises) ==
    IF iter = MaxIter THEN [converged |-> FALSE, iters |-> iter]
    ELSE IF a.num = 0
         THEN IF raises THEN [converged |-> FALSE, iters |-> iter + 1]
              ELSE [converged |-> TRUE, value |-> p0, iters |-> iter + 1]
         ELSE LET fval == RSub(RAdd(RMul(a, p0), b), RInt(HalfUnits(GainLimit)))
                  p    == RSub(p0, RDiv(fval, a))
              IN IF RBelowInverse(RAbs(RSub(p, p0)), TolInverse)
                 THEN [converged |-> TRUE, value |-> p, iters |-> iter + 1]
                 ELSE newton(a, b, p, iter + 1, raises)

(***************************************************************************)
(* measure_slopes                                                          *)
(***************************************************************************)
\* faulty variant: the query is not DISTINCT, one (x, y) per sample
SlopeCoordsAll(g, segment, hvlevel) ==
    LET rows == SelectSeq(g, LAMBDA r : r.segment = segment /\ r.dethv = hvlevel)
    IN [i \in 1..Len(rows) |-> <<rows[i].x, rows[i].y>>]

\* all_coords of measure_slopes: every distinct (x, y) of the partition
SlopeCoords(g, segment, hvlevel) ==
    SetToSortedSeq({<<g[i].x, g[i].y>> : i \in {j \in 1..Len(g) :
        g[j].segment = segment /\ g[j].dethv = hvlevel}})

\* the per-coordinate query of measure_slopes
SlopeResults(g, segment, hvlevel, x, y) ==
    SelectSeq(g, LAMBDA r : /\ r.segment = segment
                            /\ r.dethv = hvlevel
                            /\ r.x = x
                            /\ r.y = y
                            /\ r.gain > 0
                            /\ AfterEra(r.expstart))

\* faulty variant: five samples are enough
TooFewSamplesBelow5(n) == ~(n >= MinSamples)

\* not len(all_gain) > 5
TooFewSamples(n) == ~(n > MinSamples)

\* rows[all_gain.argsort()]: ascending gain (insertion sort)
RECURSIVE InsertByGain(_, _)
InsertByGain(r, s) ==
    IF s = <<>> THEN <<r>>
    ELSE IF r.gain < Head(s).gain THEN <<r>> \o s
         ELSE <<Head(s)>> \o InsertByGain(r, Tail(s))

RECURSIVE SortByGain(_)
SortByGain(rows) ==
    IF rows = <<>> THEN <<>>
    ELSE InsertByGain(rows[Len(rows)], SortByGain(SubSeq(rows, 1, Len(rows) - 1)))

\* a value in half gain units, in gain units
InGainUnits(q) == Rat(q.num, 2 * q.den)

\* faulty variant: the sentinel is stored whatever newton returns
DateBadSentinel(parameters, seed, raises) == RInt(0)

\* date_bad: newton's root, or 0 on RuntimeError
DateBad(parameters, seed, raises) ==
    LET res == newton(parameters.slope, parameters.intercept, seed, 0, raises)
    IN IF res.converged THEN res.value ELSE RInt(0)

\* one pass of measure_slopes' loop body up to session.add: the rows it adds
SlopeBody(g, segment, hvlevel, x, y, raises) ==
    IF OutOfBand(y) THEN <<>>
    ELSE LET results == SlopeResults(g, segment, hvlevel, x, y)
         IN IF TooFewSamples(Len(results)) THEN <<>>
            ELSE LET sorted       == SortByGain(results)
                     all_gain     == Column(sorted, "gain")
                     all_expstart == Column(sorted, "expstart")
                     fit          == time_fitting(all_expstart, all_gain)
                 IN IF fit.success
                    THEN LET date_bad == DateBad(fit.parameters,
                                                 InGainUnits(RInt(all_gain[Len(all_gain)])),
                                                 raises)
                         IN <<[mjd |-> Round5(date_bad),
                               segment |-> segment, dethv |-> hvlevel, x |-> x, y |-> y,
                               slope |-> Round5(InGainUnits(fit.parameters.slope)),
                               intercept |-> Round5(InGainUnits(fit.parameters.intercept))]>>
                    ELSE <<>>

(***************************************************************************)
(* State                                                                   *)
(***************************************************************************)
VARIABLES
    gain,             \* the Gain table (never written by this module)
    flagged,          \* committed rows of the Flagged table, a bag
    trends,           \* committed rows of the GainTrends table, a bag
    files,            \* names of the files in save_dir
    zeroDerivRaises,  \* the installed SciPy raises on a zero derivative
    num_cpu,          \* settings['num_cpu']
    orch,             \* where time_trends is
    all_combos,       \* all_combos of the running time_trends
    fl,               \* the find_flagged task of each combination
    sl,               \* the measure_slopes task of each combination
    run,              \* time_trends calls started so far
    pidx,             \* position of the projection loop in all_combos
    images,           \* slope_image, intercept_image, bad_image of the loop
    projLog,          \* history: what the projection loop did, pass by pass
    insFlagged,       \* history: Flagged rows committed by workers of this call
    insTrends,        \* history: GainTrends rows committed by workers of this call
    before,           \* history: the two tables as this call found them
    results           \* history: the two tables at the end of each completed call

trendVars == <<gain, flagged, trends, files, zeroDerivRaises, num_cpu, orch, all_combos,
               fl, sl, run, pidx, images, projLog, insFlagged, insTrends, before, results>>

\* parallelize (retrieval/manualabor.py)
VARIABLES
    mylist,           \* len(mylist)
    metalist,         \* the sub-lists of mylist, by their lengths
    onelist,          \* position of the for loop in metalist
    loadavg,          \* loadavg as last read, in half cores
    ncores,           \* psutil.cpu_count()
    nprocs,           \* nprocs, -1 while unbound
    nrpcos,           \* nrpcos, -1 while unbound
    ppc,              \* where parallelize is
    sysload,          \* what os.getloadavg()[0] returns now, in half cores
    pools,            \* history: the processes argument of every mp.Pool call
    mapped            \* history: the lengths of the sub-lists pool.map went over

parVars == <<mylist, metalist, onelist, loadavg, ncores, nprocs, nrpcos, ppc, sysload,
             pools, mapped>>

\* clean_slate and clear_all_databases (database/database.py)
VARIABLES
    nuke,             \* the nuke argument is true
    entry,            \* the function that was called
    db,               \* of every table: whether it exists, and how many rows it holds
    cpc,              \* where the call is
    tidx,             \* position of the loop in reversed(sorted_tables)
    dbLog,            \* history: the statements sent to the database
    dbBefore          \* history: db as the call found it

clearVars == <<nuke, entry, db, cpc, tidx, dbLog, dbBefore>>

\* ingest_all, populate_table and insert_with_yield (database/database.py)
VARIABLES
    allFiles,         \* rows of all_files
    headers,          \* committed rows of fuv_primary_headers, a bag
    ipc,              \* where ingest_all is
    tasks             \* the mp_insert task of each file of the running pool.map

ingestVars == <<allFiles, headers, ipc, tasks>>

vars == <<trendVars, parVars, clearVars, ingestVars>>

\* parallelize has not been called
ParIdle ==
    /\ mylist = 0
    /\ metalist = <<>>
    /\ onelist = 0
    /\ loadavg = 0
    /\ ncores = 1
    /\ nprocs = 0 - 1
    /\ nrpcos = 0 - 1
    /\ ppc = "idle"
    /\ sysload = 0
    /\ pools = <<>>
    /\ mapped = <<>>

\* neither clean_slate nor clear_all_databases has been called
ClearIdle ==
    /\ nuke = FALSE
    /\ entry = "none"
    /\ db = <<>>
    /\ cpc = "idle"
    /\ tidx = 0
    /\ dbLog = <<>>
    /\ dbBefore = <<>>

\* ingest_all has not been called
IngestIdle ==
    /\ allFiles = {}
    /\ headers = EmptyBag
    /\ ipc = "idle"
    /\ tasks = <<>>

RECURSIVE BagOfSeq(_)
BagOfSeq(s) == IF s = <<>> THEN EmptyBag ELSE SetToBag({Head(s)}) (+) BagOfSeq(Tail(s))

\* the SQL NULL of a column
NULL == "<NULL>"

\* a != b as a WHERE clause takes it: a comparison with NULL selects no row
SqlNotEqual(a, b) == a # NULL /\ b # NULL /\ a # b

\* every (segment, dethv) a Gain row of the model can carry
UniverseSeq == <<<<"FUVA", "167">>, <<"FUVA", "None">>, <<"FUVB", "175">>, <<"FUVB", NULL>>,
                 <<"None", "167">>, <<NULL, "175">>>>
Universe == {UniverseSeq[i] : i \in 1..Len(UniverseSeq)}

IdleTask == [pc |-> "idle", coords |-> <<>>, idx |-> 1, pend |-> <<>>]

\* faulty variant: the DISTINCT query without its two filters
CombosUnfiltered(g) ==
    SelectSeq(UniverseSeq, LAMBDA c : \E i \in 1..Len(g) :
        /\ g[i].segment = c[1]
        /\ g[i].dethv = c[2])

\* the DISTINCT (segment, dethv) query of time_trends
Combos(g) ==
    SelectSeq(UniverseSeq, LAMBDA c : \E i \in 1..Len(g) :
        /\ g[i].segment = c[1]
        /\ g[i].dethv = c[2]
        /\ SqlNotEqual(g[i].segment, "None")
        /\ SqlNotEqual(g[i].dethv, "None"))

InCombos(c) == \E i \in 1..Len(all_combos) : all_combos[i] = c

\* pool processes that are executing a task
Busy == Cardinality({c \in Universe : fl[c].pc = "running"})
        + Cardinality({c \in Universe : sl[c].pc \in {"running", "added"}})

ProjName(c) == [kind |-> "proj_bad", segment |-> c[1], dethv |-> c[2]]

(***************************************************************************)
(* The projection images.  Of the 1024 x 16384 pixels the model keeps the  *)
(* corners of the image and, for the superpixels of ProbeX x ProbeY, the   *)
(* first and last pixel of the block in each direction and the pixel       *)
(* before and after it.                                                    *)
(***************************************************************************)
ProbeX == {2, 3, 9}
ProbeY == {50, BandLo, BandHi}

Edges(b, n) == {b * n - 1, b * n, b * n + n - 1, b * n + n}

Pixels ==
    ({0, ImageRows - 1} \cup UNION {Edges(y, Y_BINNING) : y \in ProbeY})
        \X ({0, ImageCols - 1} \cup UNION {Edges(x, X_BINNING) : x \in ProbeX})

\* np.zeros((1024, 16384))
Zeros == [p \in Pixels |-> Dec(0)]

BlankImages == [slope_image |-> Zeros, intercept_image |-> Zeros, bad_image |-> Zeros]

\* faulty variant: only the first pixel of the block is assigned
AssignPoint(image, y, x, value) ==
    [p \in Pixels |-> IF y = p[1] /\ x = p[2] THEN value ELSE image[p]]

\* image[y:y+Y_BINNING, x:x+X_BINNING] = value
Assign(image, y, x, value) ==
    [p \in Pixels |-> IF /\ y <= p[1] /\ p[1] < y + Y_BINNING
                          /\ x <= p[2] /\ p[2] < x + X_BINNING
                       THEN value ELSE image[p]]

\* the query of the projection loop: the GainTrends rows of one combination
ProjResults(c) ==
    LET S == {r \in BagToSet(trends) : r.segment = c[1] /\ r.dethv = c[2]}
    IN [r \in S |-> trends[r]]

\* the orders in which a query can return the rows of bag b
RECURSIVE Orderings(_)
Orderings(b) ==
    IF BagToSet(b) = {} THEN {<<>>}
    ELSE UNION {{<<r>> \o s : s \in Orderings(b (-) SetToBag({r}))} : r \in BagToSet(b)}

\* lines 84-94: the three images painted row by row
RECURSIVE Project(_)
Project(rows) ==
    IF rows = <<>> THEN BlankImages
    ELSE LET im  == Project(SubSeq(rows, 1, Len(rows) - 1))
             row == rows[Len(rows)]
             y   == row.y * Y_BINNING
             x   == row.x * X_BINNING
         IN [slope_image     |-> Assign(im.slope_image, y, x, row.slope),
             intercept_image |-> Assign(im.intercept_image, y, x, row.intercept),
             bad_image       |-> Assign(im.bad_image, y, x, row.mjd)]

\* faulty variant: the intercepts are looked at instead of the slopes
AnyIntercept(im) == \E p \in Pixels : ~DecIsZero(im.intercept_image[p])

\* slope_image.any(): some pixel of the slope image is not zero
AnySlope(im) == \E p \in Pixels : ~DecIsZero(im.slope_image[p])

(***************************************************************************)
(* time_trends                                                             *)
(***************************************************************************)
\* faulty variant: the delete of GainTrends is missing
ClearFlaggedOnly ==
    /\ flagged' = EmptyBag
    /\ trends' = trends

\* faulty variant: the delete of Flagged is missing
ClearTrendsOnly ==
    /\ flagged' = flagged
    /\ trends' = EmptyBag

\* lines 45-52: both deletes and their commit
ClearTables ==
    /\ flagged' = EmptyBag
    /\ trends' = EmptyBag

\* lines 35-54: remove the old png products, empty both tables, commit
TimeTrendsClear ==
    /\ orch \in {"idle", "done", "aborted"}
    /\ run < MaxRuns
    /\ run' = run + 1
    /\ files' = {f \in files : f.kind # "cumulative_gainmap"}
    /\ ClearTables
    /\ insFlagged' = EmptyBag
    /\ insTrends' = EmptyBag
    /\ before' = [flagged |-> flagged, trends |-> trends, files |-> files]
    /\ fl' = [c \in Universe |-> IdleTask]
    /\ sl' = [c \in Universe |-> IdleTask]
    /\ all_combos' = <<>>
    /\ pidx' = 0
    /\ images' = BlankImages
    /\ projLog' = <<>>
    /\ orch' = "cleared"
    /\ UNCHANGED <<parVars, clearVars, ingestVars, gain, zeroDerivRaises, num_cpu, results>>

\* lines 57-70: enumerate the combinations, hand find_flagged to the pool
DispatchFlagged ==
    /\ orch = "cleared"
    /\ all_combos' = Combos(gain)
    /\ fl' = [c \in Universe |->
                IF \E i \in 1..Len(Combos(gain)) : Combos(gain)[i] = c
                THEN [IdleTask EXCEPT !.pc = "queued"] ELSE IdleTask]
    /\ orch' = "flagging"
    /\ UNCHANGED <<parVars, clearVars, ingestVars, gain, flagged, trends, files, zeroDerivRaises, num_cpu, sl, run,
                   insFlagged, insTrends, before, results,
                   pidx, images, projLog>>

\* faulty variant: the first map is not waited for beyond its first result
FlaggedFirstDone == \E c \in Universe : InCombos(c) /\ fl[c].pc = "done"

\* pool.map(find_flagged, ...) has returned
FlaggedJoined == \A c \in Universe : InCombos(c) => fl[c].pc = "done"

\* lines 70-73: the first map returns, measure_slopes is handed to the pool
DispatchSlopes ==
    /\ orch = "flagging"
    /\ FlaggedJoined
    /\ sl' = [c \in Universe |->
                IF InCombos(c) THEN [IdleTask EXCEPT !.pc = "queued"] ELSE IdleTask]
    /\ orch' = "slopes"
    /\ UNCHANGED <<parVars, clearVars, ingestVars, gain, flagged, trends, files, zeroDerivRaises, num_cpu, all_combos,
                   fl, run, insFlagged, insTrends, before, results,
                   pidx, images, projLog>>

\* lines 73-78: the second map returns, the projection loop begins
JoinSlopes ==
    /\ orch = "slopes"
    /\ \A c \in Universe : InCombos(c) => sl[c].pc = "done"
    /\ orch' = "projecting"
    /\ pidx' = 1
    /\ UNCHANGED <<parVars, clearVars, ingestVars, gain, flagged, trends, files, zeroDerivRaises, num_cpu, all_combos,
                   fl, sl, run, insFlagged, insTrends, before, results, images, projLog>>

\* lines 80-98: one pass of the projection loop.  The images are rebuilt from
\* the GainTrends rows of the combination, in the order the query returns
\* them; write_projection is called when slope_image.any().  The call either
\* writes the file ("written"), fails with a ValueError that it catches
\* itself ("caught"), or fails with another exception (OSError of a path
\* that cannot be written, TypeError), which nothing catches ("raised").
ProjectionPass(outcome) ==
    /\ LET c == all_combos[pidx]
       IN \E rows \in Orderings(ProjResults(c)) :
              LET im == Project(rows)
              IN /\ images' = im
                 /\ (outcome = "skipped") = ~AnySlope(im)
                 /\ files' = IF outcome = "written" THEN files \cup {ProjName(c)} ELSE files
                 /\ projLog' = Append(projLog, [combo |-> c, outcome |-> outcome])
    /\ orch' = IF outcome = "raised" THEN "aborted" ELSE orch
    /\ pidx' = IF outcome = "raised" THEN pidx ELSE pidx + 1
    /\ UNCHANGED <<parVars, clearVars, ingestVars, gain, flagged, trends, zeroDerivRaises, num_cpu, all_combos,
                   fl, sl, run, insFlagged, insTrends, before, results>>

\* the slope image is all zero: nothing is written
ProjectSkipped ==
    /\ orch = "projecting"
    /\ pidx <= Len(all_combos)
    /\ ProjectionPass("skipped")

\* write_projection writes proj_bad_<segment>_<dethv>.fits
ProjectWritten ==
    /\ orch = "projecting"
    /\ pidx <= Len(all_combos)
    /\ ProjectionPass("written")

\* write_projection catches its ValueError and returns
ProjectCaught ==
    /\ orch = "projecting"
    /\ pidx <= Len(all_combos)
    /\ ProjectionPass("caught")

\* an exception other than ValueError leaves write_projection and time_trends
ProjectRaises ==
    /\ orch = "projecting"
    /\ pidx <= Len(all_combos)
    /\ ProjectionPass("raised")

\* lines 100-102: the loop is over, time_trends returns
TimeTrendsEnd ==
    /\ orch = "projecting"
    /\ pidx > Len(all_combos)
    /\ orch' = "done"
    /\ results' = Append(results, [flagged |-> flagged, trends |-> trends])
    /\ UNCHANGED <<parVars, clearVars, ingestVars, gain, flagged, trends, files, zeroDerivRaises, num_cpu, all_combos,
                   fl, sl, run, insFlagged, insTrends, before, pidx, images, projLog>>

\* pool.map re-raises the exception of a task: time_trends ends there, and the
\* pool is torn down with it
MapRaises ==
    /\ \/ orch = "flagging" /\ \E c \in Universe : fl[c].pc = "raised"
       \/ orch = "slopes" /\ \E c \in Universe : sl[c].pc = "raised"
    /\ orch' = "aborted"
    /\ UNCHANGED <<parVars, clearVars, ingestVars, gain, flagged, trends, files, zeroDerivRaises, num_cpu, all_combos,
                   fl, sl, run, insFlagged, insTrends, before, results,
                   pidx, images, projLog>>

(***************************************************************************)
(* find_flagged, one pool task per combination                             *)
(***************************************************************************)
\* a pool process takes the task: lines 107-120
FlagStart(c) ==
    /\ orch = "flagging"
    /\ fl[c].pc = "queued"
    /\ Busy < num_cpu
    /\ fl' = [fl EXCEPT ![c] = [pc |-> "running", coords |-> FlaggedCoords(gain, c[1], c[2]),
                                 idx |-> 1, pend |-> <<>>]]
    /\ UNCHANGED <<parVars, clearVars, ingestVars, gain, flagged, trends, files, zeroDerivRaises, num_cpu, orch, all_combos,
                   sl, run, insFlagged, insTrends, before, results,
                   pidx, images, projLog>>

\* faulty variant: the row of each superpixel is committed as it is added
FlagExamineCommits(c) ==
    /\ orch = "flagging"
    /\ fl[c].pc = "running"
    /\ fl[c].idx <= Len(fl[c].coords)
    /\ LET xy == fl[c].coords[fl[c].idx]
           rows == BagOfSeq(FlaggedBody(gain, c[1], c[2], xy[1], xy[2]))
       IN /\ flagged' = flagged (+) rows
          /\ insFlagged' = insFlagged (+) rows
          /\ fl' = [fl EXCEPT ![c].idx = @ + 1]
    /\ UNCHANGED <<parVars, clearVars, ingestVars, gain, trends, files, zeroDerivRaises, num_cpu, orch, all_combos,
                   sl, run, insTrends, before, results,
                   pidx, images, projLog>>

\* one pass of the loop: lines 123-161
FlagExamine(c) ==
    /\ orch = "flagging"
    /\ fl[c].pc = "running"
    /\ fl[c].idx <= Len(fl[c].coords)
    /\ LET xy == fl[c].coords[fl[c].idx]
       IN fl' = [fl EXCEPT ![c].pend = @ \o FlaggedBody(gain, c[1], c[2], xy[1], xy[2]),
                           ![c].idx = @ + 1]
    /\ UNCHANGED <<parVars, clearVars, ingestVars, gain, flagged, trends, files, zeroDerivRaises, num_cpu, orch, all_combos,
                   sl, run, insFlagged, insTrends, before, results,
                   pidx, images, projLog>>

\* after the loop: lines 163-165, the only commit of the task
FlagCommit(c) ==
    /\ orch = "flagging"
    /\ fl[c].pc = "running"
    /\ fl[c].idx > Len(fl[c].coords)
    /\ flagged' = flagged (+) BagOfSeq(fl[c].pend)
    /\ insFlagged' = insFlagged (+) BagOfSeq(fl[c].pend)
    /\ fl' = [fl EXCEPT ![c].pc = "done", ![c].pend = <<>>]
    /\ UNCHANGED <<parVars, clearVars, ingestVars, gain, trends, files, zeroDerivRaises, num_cpu, orch, all_combos,
                   sl, run, insTrends, before, results,
                   pidx, images, projLog>>

\* a store call of the task raises: what the session holds uncommitted is lost
FlagRaise(c) ==
    /\ orch = "flagging"
    /\ fl[c].pc = "running"
    /\ fl' = [fl EXCEPT ![c].pc = "raised", ![c].pend = <<>>]
    /\ UNCHANGED <<parVars, clearVars, ingestVars, gain, flagged, trends, files, zeroDerivRaises, num_cpu, orch, all_combos,
                   sl, run, insFlagged, insTrends, before, results,
                   pidx, images, projLog>>

(***************************************************************************)
(* measure_slopes, one pool task per combination                           *)
(***************************************************************************)
\* a pool process takes the task: lines 170-181
SlopeStart(c) ==
    /\ orch = "slopes"
    /\ sl[c].pc = "queued"
    /\ Busy < num_cpu
    /\ sl' = [sl EXCEPT ![c] = [pc |-> "running", coords |-> SlopeCoords(gain, c[1], c[2]),
                                 idx |-> 1, pend |-> <<>>]]
    /\ UNCHANGED <<parVars, clearVars, ingestVars, gain, flagged, trends, files, zeroDerivRaises, num_cpu, orch, all_combos,
                   fl, run, insFlagged, insTrends, before, results,
                   pidx, images, projLog>>

\* one pass of the loop up to session.add: lines 183-239
SlopeExamine(c) ==
    /\ orch = "slopes"
    /\ sl[c].pc = "running"
    /\ sl[c].idx <= Len(sl[c].coords)
    /\ LET xy   == sl[c].coords[sl[c].idx]
           rows == SlopeBody(gain, c[1], c[2], xy[1], xy[2], zeroDerivRaises)
       IN sl' = IF rows = <<>>
                THEN [sl EXCEPT ![c].idx = @ + 1]
                ELSE [sl EXCEPT ![c].pc = "added", ![c].pend = rows]
    /\ UNCHANGED <<parVars, clearVars, ingestVars, gain, flagged, trends, files, zeroDerivRaises, num_cpu, orch, all_combos,
                   fl, run, insFlagged, insTrends, before, results,
                   pidx, images, projLog>>

\* faulty variant: the pass goes on without committing, the row is dropped
SlopeCommitSkipped(c) ==
    /\ orch = "slopes"
    /\ sl[c].pc = "added"
    /\ sl' = [sl EXCEPT ![c].pc = "running", ![c].pend = <<>>, ![c].idx = @ + 1]
    /\ UNCHANGED <<parVars, clearVars, ingestVars, gain, flagged, trends, files, zeroDerivRaises, num_cpu, orch, all_combos,
                   fl, run, insFlagged, insTrends, before, results,
                   pidx, images, projLog>>

\* session.commit() of the pass: line 241
SlopeCommit(c) ==
    /\ orch = "slopes"
    /\ sl[c].pc = "added"
    /\ trends' = trends (+) BagOfSeq(sl[c].pend)
    /\ insTrends' = insTrends (+) BagOfSeq(sl[c].pend)
    /\ sl' = [sl EXCEPT ![c].pc = "running", ![c].pend = <<>>, ![c].idx = @ + 1]
    /\ UNCHANGED <<parVars, clearVars, ingestVars, gain, flagged, files, zeroDerivRaises, num_cpu, orch, all_combos,
                   fl, run, insFlagged, before, results,
                   pidx, images, projLog>>

\* after the loop: lines 243-244
SlopeClose(c) ==
    /\ orch = "slopes"
    /\ sl[c].pc = "running"
    /\ sl[c].idx > Len(sl[c].coords)
    /\ sl' = [sl EXCEPT ![c].pc = "done"]
    /\ UNCHANGED <<parVars, clearVars, ingestVars, gain, flagged, trends, files, zeroDerivRaises, num_cpu, orch, all_combos,
                   fl, run, insFlagged, insTrends, before, results,
                   pidx, images, projLog>>

\* a store call of the task raises: the uncommitted row, if any, is lost
SlopeRaise(c) ==
    /\ orch = "slopes"
    /\ sl[c].pc \in {"running", "added"}
    /\ sl' = [sl EXCEPT ![c].pc = "raised", ![c].pend = <<>>]
    /\ UNCHANGED <<parVars, clearVars, ingestVars, gain, flagged, trends, files, zeroDerivRaises, num_cpu, orch, all_combos,
                   fl, run, insFlagged, insTrends, before, results,
                   pidx, images, projLog>>

\* the pool process dies in mid-task (killed, out of memory): the uncommitted
\* row is lost and the map never returns
SlopeCrash(c) ==
    /\ orch = "slopes"
    /\ sl[c].pc \in {"running", "added"}
    /\ sl' = [sl EXCEPT ![c].pc = "crashed", ![c].pend = <<>>]
    /\ UNCHANGED <<parVars, clearVars, ingestVars, gain, flagged, trends, files, zeroDerivRaises, num_cpu, orch, all_combos,
                   fl, run, insFlagged, insTrends, before, results,
                   pidx, images, projLog>>

\* the pool process dies in mid-task: nothing of the task was committed
FlagCrash(c) ==
    /\ orch = "flagging"
    /\ fl[c].pc = "running"
    /\ fl' = [fl EXCEPT ![c].pc = "crashed", ![c].pend = <<>>]
    /\ UNCHANGED <<parVars, clearVars, ingestVars, gain, flagged, trends, files, zeroDerivRaises, num_cpu, orch, all_combos,
                   sl, run, insFlagged, insTrends, before, results,
                   pidx, images, projLog>>

(***************************************************************************)
(* Gain tables the runs are checked on                                     *)
(***************************************************************************)
GainRow(c, x, y, s) ==
    [segment |-> c[1], dethv |-> c[2], x |-> x, y |-> y,
     gain |-> s[1], counts |-> s[2], expstart |-> s[3]]

\* the rows of one superpixel from its samples <<gain, counts, expstart>>
Pixel(c, x, y, samples) == [i \in 1..Len(samples) |-> GainRow(c, x, y, samples[i])]

\* the k-th gainmap after the era cut, 100 days apart
Epoch(k) == EraStart + 3 + 100 * k

RECURSIVE Flatten(_)
Flatten(ss) == IF ss = <<>> THEN <<>> ELSE Head(ss) \o Flatten(Tail(ss))

\* gain 4.0 falling by 0.5 every 100 days from MJD 55200, counts 50
Scenario == [k \in 1..6 |-> <<HalfUnits(4) - (k - 1), 50, Epoch(k - 1)>>]
\* gain 5.0 five times, then 1.0
Step == [k \in 1..6 |-> <<IF k < 6 THEN HalfUnits(5) ELSE HalfUnits(1), 50, Epoch(k - 1)>>]
\* gain 5.0 throughout
Flat == [k \in 1..6 |-> <<HalfUnits(5), 50, Epoch(k - 1)>>]
\* two trusted low samples
Low == <<<<HalfUnits(2), 30, Epoch(1)>>, <<HalfUnits(3), 50, Epoch(0)>>>>

A167 == <<"FUVA", "167">>
B175 == <<"FUVB", "175">>

\* rows whose segment or dethv is the placeholder
Placeholders ==
    Pixel(<<"None", "167">>, 2, BandLo, Low) \o Pixel(<<"FUVA", "None">>, 2, BandLo, Low)
    \o Pixel(<<NULL, "175">>, 2, BandLo, Low) \o Pixel(<<"FUVB", NULL>>, 2, BandLo, Low)

\* tables of two combinations, for the runs of time_trends
RunTables ==
    {Flatten(<<Pixel(A167, 2, BandLo, s1), Pixel(A167, 3, BandHi, s2),
               Pixel(B175, 2, BandLo, s3), Placeholders>>) :
        s1 \in {Scenario, Step}, s2 \in {Scenario, Flat, Low}, s3 \in {Scenario, <<>>}}

\* tables of one superpixel near the flagging limits: up to four samples around
\* the era cut, gain 3.0 or 3.5, counts 29 or 30
FlagOptions == {<<>>} \cup {<<g, n>> : g \in {HalfUnits(3), HalfUnits(3) + 1}, n \in {CountsLimit - 1, CountsLimit}}
FlagTimes == <<EraStart - 97, EraStart, Epoch(0), Epoch(1)>>
FlagTables ==
    {Flatten([k \in 1..4 |-> IF f[k] = <<>> THEN <<>>
                              ELSE Pixel(A167, 2, BandLo, <<<<f[k][1], f[k][2], FlagTimes[k]>>>>)]) :
        f \in [1..4 -> FlagOptions]}

\* tables of one superpixel with a sample at every epoch, gain 0, 1.0 or 5.0,
\* with or without one more sample from before the era cut
SlopeTables ==
    {Flatten(<<Pixel(A167, 2, BandHi, pre),
               Pixel(A167, 2, BandHi, [k \in 1..NumEpochs |-> <<f[k], 50, Epoch(k - 1)>>])>>) :
        pre \in {<<>>, <<<<HalfUnits(5), 50, EraStart>>>>},
        f \in [1..NumEpochs -> {0, HalfUnits(1), HalfUnits(5)}]}

\* tables of one superpixel at and beside the edges of the spectral band
BandTables ==
    {Pixel(A167, 2, y, s) : y \in {BandLo - 1, BandLo, BandHi, BandHi + 1},
                            s \in {Scenario, Step, Low}}

\* tables of two superpixels, gone through in this order
PairTables ==
    {Flatten(<<Pixel(A167, 2, BandLo, s1), Pixel(A167, 3, BandLo, s2)>>) :
        s1 \in {Flat, Step, Scenario}, s2 \in {Scenario, Flat}}

CoordTables == FlagTables \cup SlopeTables \cup BandTables \cup PairTables

StaleFlagged ==
    SetToBag({[mjd |-> Dec(Epoch(0)), segment |-> "FUVA", dethv |-> "167", x |-> 9, y |-> BandLo]})
StaleTrends ==
    SetToBag({[mjd |-> Dec(Epoch(9)), segment |-> "FUVB", dethv |-> "175", x |-> 9, y |-> BandLo,
               slope |-> Dec(1), intercept |-> Dec(1)]})
StaleFiles == {[kind |-> "cumulative_gainmap", segment |-> "FUVA", dethv |-> "167"],
               [kind |-> "proj_bad", segment |-> "FUVB", dethv |-> "175"]}

(***************************************************************************)
(* Specifications                                                          *)
(***************************************************************************)
InitCommon ==
    /\ files = StaleFiles
    /\ zeroDerivRaises \in BOOLEAN
    /\ orch = "idle"
    /\ all_combos = <<>>
    /\ pidx = 0
    /\ images = BlankImages
    /\ projLog = <<>>
    /\ fl = [c \in Universe |-> IdleTask]
    /\ sl = [c \in Universe |-> IdleTask]
    /\ insFlagged = EmptyBag
    /\ insTrends = EmptyBag
    /\ before = [flagged |-> EmptyBag, trends |-> EmptyBag, files |-> {}]
    /\ results = <<>>
    /\ ParIdle
    /\ ClearIdle
    /\ IngestIdle

\* repeated runs of time_trends over two combinations, tasks failing at will
Init ==
    /\ gain \in RunTables
    /\ flagged \in {EmptyBag, StaleFlagged}
    /\ trends \in {EmptyBag, StaleTrends}
    /\ num_cpu \in 1..MaxCpu
    /\ run = 0
    /\ InitCommon

Cycle ==
    \/ TimeTrendsClear
    \/ DispatchFlagged
    \/ DispatchSlopes
    \/ JoinSlopes
    \/ ProjectSkipped
    \/ ProjectWritten
    \/ TimeTrendsEnd
    \/ \E c \in Universe : FlagStart(c)
    \/ \E c \in Universe : FlagExamine(c)
    \/ \E c \in Universe : FlagCommit(c)
    \/ \E c \in Universe : SlopeStart(c)
    \/ \E c \in Universe : SlopeExamine(c)
    \/ \E c \in Universe : SlopeCommit(c)
    \/ \E c \in Universe : SlopeClose(c)

Next ==
    \/ Cycle
    \/ MapRaises
    \/ ProjectCaught
    \/ ProjectRaises
    \/ \E c \in Universe : FlagRaise(c)
    \/ \E c \in Universe : SlopeRaise(c)
    \/ \E c \in Universe : FlagCrash(c)
    \/ \E c \in Universe : SlopeCrash(c)

Spec == Init /\ [][Next]_vars

\* one undisturbed run of time_trends over each table of one superpixel
InitCoord ==
    /\ gain \in CoordTables
    /\ flagged = StaleFlagged
    /\ trends = StaleTrends
    /\ num_cpu = 1
    /\ run = MaxRuns - 1
    /\ InitCommon

SpecCoord == InitCoord /\ [][Cycle]_vars

\* GainTrends rows for the projection loop: slope -0.01 / 0 / -0.005
TrendRow(c, x, y, slope, intercept, mjd) ==
    [mjd |-> mjd, segment |-> c[1], dethv |-> c[2], x |-> x, y |-> y,
     slope |-> slope, intercept |-> intercept]

Hundredth == [neg |-> TRUE, int |-> 0, e5 |-> 1000]

ProjRows ==
    {TrendRow(A167, 2, 50, Hundredth, Dec(560), Dec(55700)),
     TrendRow(A167, 3, 50, Dec(0), Dec(5), Dec(0)),
     TrendRow(A167, 2, BandLo, [neg |-> TRUE, int |-> 0, e5 |-> 500], Dec(280), Dec(55400)),
     TrendRow(B175, 2, 50, Hundredth, Dec(560), Dec(55700)),
     TrendRow(B175, 3, BandHi, Dec(0), Dec(5), Dec(5)),
     TrendRow(B175, 9, BandHi, Dec(0), Dec(1), Dec(0))}

\* GainTrends tables with at most one row per superpixel of a combination
ProjTables == {SetToBag(S) : S \in SUBSET ProjRows}

\* the projection loop of time_trends on each table of ProjTables: the second
\* map has returned for the combinations FUVA/167 and FUVB/175
InitProj ==
    /\ gain = Flatten(<<Pixel(A167, 2, BandLo, Scenario), Pixel(B175, 2, BandLo, Scenario)>>)
    /\ flagged = EmptyBag
    /\ trends \in ProjTables
    /\ files = StaleFiles
    /\ zeroDerivRaises = TRUE
    /\ num_cpu = 1
    /\ orch = "projecting"
    /\ all_combos = <<A167, B175>>
    /\ pidx = 1
    /\ images = BlankImages
    /\ projLog = <<>>
    /\ fl = [c \in Universe |-> IF c \in {A167, B175}
                                 THEN [IdleTask EXCEPT !.pc = "done"] ELSE IdleTask]
    /\ sl = [c \in Universe |-> IF c \in {A167, B175}
                                 THEN [IdleTask EXCEPT !.pc = "done"] ELSE IdleTask]
    /\ run = MaxRuns
    /\ insFlagged = EmptyBag
    /\ insTrends = trends
    /\ before = [flagged |-> EmptyBag, trends |-> EmptyBag, files |-> StaleFiles]
    /\ results = <<>>
    /\ ParIdle
    /\ ClearIdle
    /\ IngestIdle

ProjNext ==
    \/ ProjectSkipped
    \/ ProjectWritten
    \/ TimeTrendsEnd

SpecProj == InitProj /\ [][ProjNext]_vars

(***************************************************************************)
(* parallelize (retrieval/manualabor.py)                                   *)
(*                                                                         *)
(* The load average is a float; the model counts it in half cores, which   *)
(* tells a whole load from one that math.ceil rounds up.                   *)
(***************************************************************************)
maxnum == 25
playnice == Rat(1, 4)

MaxCores == 8
MaxLoad == 4

\* lengths of mylist: empty, one item, a full sub-list, one more, two and one more
ListLengths == {0, 1, maxnum, maxnum + 1, 2 * maxnum + 1}

Loads == 0..(2 * MaxLoad)

\* [mylist[i:i+maxnum] for i in xrange(0, len(mylist), maxnum)], by lengths
Chunks(n) ==
    [i \in 1..((n + maxnum - 1) \div maxnum) |->
        IF i * maxnum <= n THEN maxnum ELSE n - (i - 1) * maxnum]

\* loadavg >= (ncores-1)
TooBusy(l, n) == l >= 2 * (n - 1)

\* math.ceil(loadavg)
Ceil(l) == (l + 1) \div 2

\* int(np.floor(avail * playnice))
Nprocs(avail) == (avail * playnice.num) \div playnice.den

\* the variables of time_trends, at rest
TrendsIdle ==
    /\ gain = <<>>
    /\ flagged = EmptyBag
    /\ trends = EmptyBag
    /\ files = {}
    /\ zeroDerivRaises = FALSE
    /\ num_cpu = 1
    /\ orch = "idle"
    /\ all_combos = <<>>
    /\ pidx = 0
    /\ images = <<>>
    /\ projLog = <<>>
    /\ fl = <<>>
    /\ sl = <<>>
    /\ run = 0
    /\ insFlagged = EmptyBag
    /\ insTrends = EmptyBag
    /\ before = <<>>
    /\ results = <<>>

\* lines 329-334: the list is split
Split ==
    /\ ppc = "called"
    /\ metalist' = IF mylist > maxnum THEN Chunks(mylist) ELSE <<mylist>>
    /\ ppc' = "for"
    /\ UNCHANGED <<trendVars, clearVars, ingestVars, mylist, onelist, loadavg, ncores,
                   nprocs, nrpcos, sysload, pools, mapped>>

\* lines 335-338: the next sub-list; the load average is read
ReadLoad ==
    /\ ppc = "for"
    /\ onelist < Len(metalist)
    /\ onelist' = onelist + 1
    /\ loadavg' = sysload
    /\ ppc' = "while"
    /\ UNCHANGED <<trendVars, clearVars, ingestVars, mylist, metalist, ncores,
                   nprocs, nrpcos, sysload, pools, mapped>>

\* lines 340-341: the test of the while loop holds, time.sleep(600) is entered
Sleep ==
    /\ ppc = "while"
    /\ TooBusy(loadavg, ncores)
    /\ ppc' = "sleeping"
    /\ UNCHANGED <<trendVars, clearVars, ingestVars, mylist, metalist, onelist, loadavg,
                   ncores, nprocs, nrpcos, sysload, pools, mapped>>

\* line 341: time.sleep returns, the test of the loop is next
Wake ==
    /\ ppc = "sleeping"
    /\ ppc' = "while"
    /\ UNCHANGED <<trendVars, clearVars, ingestVars, mylist, metalist, onelist, loadavg,
                   ncores, nprocs, nrpcos, sysload, pools, mapped>>

\* lines 342-348: the test fails, the else clause and the if after it
SizePool ==
    /\ ppc = "while"
    /\ ~TooBusy(loadavg, ncores)
    /\ LET avail == ncores - Ceil(loadavg)
       IN /\ nprocs' = Nprocs(avail)
          /\ nrpcos' = IF Nprocs(avail) = 0 THEN 1 ELSE nrpcos
    /\ ppc' = "pool"
    /\ UNCHANGED <<trendVars, clearVars, ingestVars, mylist, metalist, onelist, loadavg,
                   ncores, sysload, pools, mapped>>

\* line 349: mp.Pool(processes=nprocs)
CreatePool ==
    /\ ppc = "pool"
    /\ nprocs >= 1
    /\ pools' = Append(pools, nprocs)
    /\ ppc' = "map"
    /\ UNCHANGED <<trendVars, clearVars, ingestVars, mylist, metalist, onelist, loadavg,
                   ncores, nprocs, nrpcos, sysload, mapped>>

\* line 349: mp.Pool raises ValueError when processes < 1
PoolRaises ==
    /\ ppc = "pool"
    /\ nprocs < 1
    /\ pools' = Append(pools, nprocs)
    /\ ppc' = "raised"
    /\ UNCHANGED <<trendVars, clearVars, ingestVars, mylist, metalist, onelist, loadavg,
                   ncores, nprocs, nrpcos, sysload, mapped>>

\* line 350: pool.map(myfunc, onelist)
PoolMap ==
    /\ ppc = "map"
    /\ mapped' = Append(mapped, metalist[onelist])
    /\ ppc' = "for"
    /\ UNCHANGED <<trendVars, clearVars, ingestVars, mylist, metalist, onelist, loadavg,
                   ncores, nprocs, nrpcos, sysload, pools>>

\* the for loop is over, parallelize returns
Return ==
    /\ ppc = "for"
    /\ onelist = Len(metalist)
    /\ ppc' = "returned"
    /\ UNCHANGED <<trendVars, clearVars, ingestVars, mylist, metalist, onelist, loadavg,
                   ncores, nprocs, nrpcos, sysload, pools, mapped>>

\* the load of the machine changes
LoadChanges ==
    /\ sysload' \in Loads \ {sysload}
    /\ UNCHANGED <<trendVars, clearVars, ingestVars, mylist, metalist, onelist, loadavg,
                   ncores, nprocs, nrpcos, ppc, pools, mapped>>

parallelize ==
    \/ Split
    \/ ReadLoad
    \/ Sleep
    \/ Wake
    \/ SizePool
    \/ CreatePool
    \/ PoolRaises
    \/ PoolMap
    \/ Return

InitPar ==
    /\ mylist \in ListLengths
    /\ metalist = <<>>
    /\ onelist = 0
    /\ loadavg = 0
    /\ ncores \in 1..MaxCores
    /\ nprocs = 0 - 1
    /\ nrpcos = 0 - 1
    /\ ppc = "called"
    /\ sysload \in Loads
    /\ pools = <<>>
    /\ mapped = <<>>
    /\ TrendsIdle
    /\ ClearIdle
    /\ IngestIdle

NextPar ==
    \/ parallelize
    \/ LoadChanges

\* a call of parallelize on a machine whose load changes at will; the call
\* itself is never held up
SpecPar == InitPar /\ [][NextPar]_vars /\ WF_vars(parallelize)

(***************************************************************************)
(* clean_slate and clear_all_databases (database/database.py)              *)
(*                                                                         *)
(* Three tables stand for the schema: all_files, and two of the tables     *)
(* that refer to it by file_id.  The back end is MySQL (db_tables.py       *)
(* imports its dialect): a statement that fails is undone alone and the    *)
(* session goes on with the next.                                          *)
(***************************************************************************)
MaxRows == 2

\* Base.metadata.sorted_tables: a table comes after the table it refers to
sorted_tables == <<"all_files", "flagged", "gain">>

Tables == {sorted_tables[i] : i \in 1..Len(sorted_tables)}

\* reversed(s)
Reversed(s) == [i \in 1..Len(s) |-> s[Len(s) + 1 - i]]

\* the tables with a file_id column that refers to all_files.id
Children == Tables \ {"all_files"}

\* the databases a call can find: a missing table holds nothing, a table that
\* refers to all_files exists only with it and has rows only if it has
Databases ==
    {d \in [Tables -> [exists : BOOLEAN, rows : 0..MaxRows]] :
        /\ \A t \in Tables : ~d[t].exists => d[t].rows = 0
        /\ \A t \in Children : /\ d[t].exists => d["all_files"].exists
                               /\ d[t].rows > 0 => d["all_files"].rows > 0}

\* DELETE FROM t can succeed: the table exists and no row refers to its rows
Deletable(d, t) ==
    /\ d[t].exists
    /\ t = "all_files" => \A c \in Children : d[c].rows = 0

\* lines 572-585: clean_slate parses --nuke and calls clear_all_databases
CleanSlateCalls ==
    /\ cpc = "called"
    /\ entry = "clean_slate"
    /\ cpc' = "clear"
    /\ UNCHANGED <<trendVars, parVars, ingestVars, nuke, entry, db, tidx, dbLog, dbBefore>>

\* lines 532-533: without nuke, sys.exit ends the process
ClearRefused ==
    /\ cpc = "clear"
    /\ ~nuke
    /\ cpc' = "exited"
    /\ UNCHANGED <<trendVars, parVars, ingestVars, nuke, entry, db, tidx, dbLog, dbBefore>>

\* lines 516-521: with nuke, a session is opened and the loop begins
ClearBegins ==
    /\ cpc = "clear"
    /\ nuke
    /\ cpc' = "loop"
    /\ tidx' = 1
    /\ UNCHANGED <<trendVars, parVars, ingestVars, nuke, entry, db, dbLog, dbBefore>>

\* lines 525-528: the delete of the table and its commit succeed
DeleteOk ==
    /\ cpc = "loop"
    /\ tidx <= Len(sorted_tables)
    /\ LET table == Reversed(sorted_tables)[tidx]
       IN /\ Deletable(db, table)
          /\ db' = [db EXCEPT ![table].rows = 0]
          /\ dbLog' = Append(dbLog, [op |-> "delete", table |-> table, ok |-> TRUE])
    /\ tidx' = tidx + 1
    /\ UNCHANGED <<trendVars, parVars, ingestVars, nuke, entry, cpc, dbBefore>>

\* faulty variant: a delete that fails ends the loop
DeleteFailsStops ==
    /\ cpc = "loop"
    /\ tidx <= Len(sorted_tables)
    /\ dbLog' = Append(dbLog, [op |-> "delete", table |-> Reversed(sorted_tables)[tidx],
                               ok |-> FALSE])
    /\ tidx' = Len(sorted_tables) + 1
    /\ UNCHANGED <<trendVars, parVars, ingestVars, nuke, entry, db, cpc, dbBefore>>

\* lines 525-531: the delete raises (a missing table, rows still referred to,
\* a lock, the connection) and the except clause goes on with the next table
DeleteFails ==
    /\ cpc = "loop"
    /\ tidx <= Len(sorted_tables)
    /\ dbLog' = Append(dbLog, [op |-> "delete", table |-> Reversed(sorted_tables)[tidx],
                               ok |-> FALSE])
    /\ tidx' = tidx + 1
    /\ UNCHANGED <<trendVars, parVars, ingestVars, nuke, entry, db, cpc, dbBefore>>

\* the loop is over: clear_all_databases returns, to clean_slate if it called
ClearReturns ==
    /\ cpc = "loop"
    /\ tidx > Len(sorted_tables)
    /\ cpc' = IF entry = "clean_slate" THEN "drop" ELSE "returned"
    /\ UNCHANGED <<trendVars, parVars, ingestVars, nuke, entry, db, tidx, dbLog, dbBefore>>

\* line 586: drop_all(engine, checkfirst=False), every table being there
DropAll ==
    /\ cpc = "drop"
    /\ \A t \in Tables : db[t].exists
    /\ db' = [t \in Tables |-> [exists |-> FALSE, rows |-> 0]]
    /\ dbLog' = Append(dbLog, [op |-> "drop_all", table |-> "", ok |-> TRUE])
    /\ cpc' = "create"
    /\ UNCHANGED <<trendVars, parVars, ingestVars, nuke, entry, tidx, dbBefore>>

\* line 586: without checkfirst, DROP TABLE raises at the first table that is
\* missing; the tables before it in reverse order are gone
DropAllRaises ==
    /\ cpc = "drop"
    /\ \E k \in 1..Len(sorted_tables) :
           LET rev == Reversed(sorted_tables)
           IN /\ ~db[rev[k]].exists
              /\ \A j \in 1..(k - 1) : db[rev[j]].exists
              /\ db' = [t \in Tables |->
                           IF \E j \in 1..(k - 1) : rev[j] = t
                           THEN [exists |-> FALSE, rows |-> 0] ELSE db[t]]
    /\ dbLog' = Append(dbLog, [op |-> "drop_all", table |-> "", ok |-> FALSE])
    /\ cpc' = "raised"
    /\ UNCHANGED <<trendVars, parVars, ingestVars, nuke, entry, tidx, dbBefore>>

\* line 587: create_all(engine)
CreateAll ==
    /\ cpc = "create"
    /\ db' = [t \in Tables |-> IF db[t].exists THEN db[t] ELSE [exists |-> TRUE, rows |-> 0]]
    /\ dbLog' = Append(dbLog, [op |-> "create_all", table |-> "", ok |-> TRUE])
    /\ cpc' = "returned"
    /\ UNCHANGED <<trendVars, parVars, ingestVars, nuke, entry, tidx, dbBefore>>

InitClear ==
    /\ nuke \in BOOLEAN
    /\ entry \in {"clean_slate", "clear_all_databases"}
    /\ db \in Databases
    /\ cpc = IF entry = "clean_slate" THEN "called" ELSE "clear"
    /\ tidx = 0
    /\ dbLog = <<>>
    /\ dbBefore = db
    /\ TrendsIdle
    /\ ParIdle
    /\ IngestIdle

NextClear ==
    \/ CleanSlateCalls
    \/ ClearRefused
    \/ ClearBegins
    \/ DeleteOk
    \/ DeleteFails
    \/ ClearReturns
    \/ DropAll
    \/ DropAllRaises
    \/ CreateAll

\* one call of clean_slate or of clear_all_databases, with or without nuke
SpecClear == InitClear /\ [][NextClear]_vars

(***************************************************************************)
(* ingest_all, populate_table and insert_with_yield (database/database.py) *)
(* for fuv_primary_headers                                                 *)
(***************************************************************************)
\* files the tree can hold: an exposure with its rawtag_a file as it came and
\* gzipped, its rawtag_b file, and the rawtag_b file of another exposure
Catalogue ==
    {[id |-> 1, rootname |-> "la9t01abq", tag |-> "rawtag_a", gz |-> FALSE],
     [id |-> 2, rootname |-> "la9t01abq", tag |-> "rawtag_a", gz |-> TRUE],
     [id |-> 3, rootname |-> "la9t01abq", tag |-> "rawtag_b", gz |-> FALSE],
     [id |-> 4, rootname |-> "lb2x02cdq", tag |-> "rawtag_b", gz |-> FALSE]}

\* Files.filename.like('%_' + tag + '.fits%'): whatever follows .fits
Like(f, tag) == f.tag = tag

\* a row of fuv_primary_headers, by the two columns that matter here
HeaderRow(rootname, file_id) == [rootname |-> rootname, file_id |-> file_id]

\* lines 388-392: the files of the tag that no row of the table refers to
FilesToAdd(tag) ==
    {f \in allFiles : Like(f, tag) /\ \A r \in BagToSet(headers) : r.file_id # f.id}

\* lines 155-156: a committed row holds this rootname
RootnameExists(rootname) == \E r \in BagToSet(headers) : r.rootname = rootname

\* pool processes that are executing a task of populate_table
Inserting == Cardinality({f \in DOMAIN tasks : tasks[f].pc \in {"running", "checked"}})

\* pool.map(mp_insert, args) has returned
Inserted == \A f \in DOMAIN tasks : tasks[f].pc = "done"

\* lines 380-398: populate_table up to the hand-over of its tasks to the pool
populate_table(tag) ==
    tasks' = [f \in FilesToAdd(tag) |-> [pc |-> "queued", add |-> FALSE]]

\* line 653: the rawtag_a files
PopulateA ==
    /\ ipc = "called"
    /\ populate_table("rawtag_a")
    /\ ipc' = "rawtag_a"
    /\ UNCHANGED <<trendVars, parVars, clearVars, allFiles, headers>>

\* line 655: the rawtag_b files, once the first pool.map has returned
PopulateB ==
    /\ ipc = "rawtag_a"
    /\ Inserted
    /\ populate_table("rawtag_b")
    /\ ipc' = "rawtag_b"
    /\ UNCHANGED <<trendVars, parVars, clearVars, allFiles, headers>>

\* the second pool.map has returned
PopulateDone ==
    /\ ipc = "rawtag_b"
    /\ Inserted
    /\ ipc' = "done"
    /\ UNCHANGED <<trendVars, parVars, clearVars, allFiles, headers, tasks>>

\* lines 84-125: a pool process takes the task and opens its session
InsertStart(f) ==
    /\ f \in DOMAIN tasks
    /\ tasks[f].pc = "queued"
    /\ Inserting < num_cpu
    /\ tasks' = [tasks EXCEPT ![f].pc = "running"]
    /\ UNCHANGED <<trendVars, parVars, clearVars, allFiles, headers, ipc>>

\* lines 154-160: the row is added to the session when no committed row
\* holds its rootname
InsertCheck(f) ==
    /\ f \in DOMAIN tasks
    /\ tasks[f].pc = "running"
    /\ tasks' = [tasks EXCEPT ![f].pc = "checked", ![f].add = ~RootnameExists(f.rootname)]
    /\ UNCHANGED <<trendVars, parVars, clearVars, allFiles, headers, ipc>>

\* lines 200-202: the commit
InsertCommit(f) ==
    /\ f \in DOMAIN tasks
    /\ tasks[f].pc = "checked"
    /\ headers' = IF tasks[f].add
                  THEN headers (+) SetToBag({HeaderRow(f.rootname, f.id)})
                  ELSE headers
    /\ tasks' = [tasks EXCEPT ![f].pc = "done"]
    /\ UNCHANGED <<trendVars, parVars, clearVars, allFiles, ipc>>

\* lines 187-200: the reader raises ValueError or TypeError, a row with
\* nothing but the file_id is added and committed
InsertBlank(f) ==
    /\ f \in DOMAIN tasks
    /\ tasks[f].pc = "running"
    /\ headers' = headers (+) SetToBag({HeaderRow(NULL, f.id)})
    /\ tasks' = [tasks EXCEPT ![f].pc = "done"]
    /\ UNCHANGED <<trendVars, parVars, clearVars, allFiles, ipc>>

\* lines 187-200: the reader raises IOError.  delete_file_from_all is given
\* the full path and matches it against Files.filename, which holds the
\* name without its directory: no row is deleted; nothing is added
InsertMissing(f) ==
    /\ f \in DOMAIN tasks
    /\ tasks[f].pc = "running"
    /\ tasks' = [tasks EXCEPT ![f].pc = "done"]
    /\ UNCHANGED <<trendVars, parVars, clearVars, allFiles, headers, ipc>>

InitIngest ==
    /\ allFiles \in SUBSET Catalogue
    /\ headers \in {EmptyBag} \cup {SetToBag({HeaderRow(f.rootname, f.id)}) : f \in allFiles}
    /\ ipc = "called"
    /\ tasks = <<>>
    /\ gain = <<>>
    /\ flagged = EmptyBag
    /\ trends = EmptyBag
    /\ files = {}
    /\ zeroDerivRaises = FALSE
    /\ num_cpu \in 1..MaxCpu
    /\ orch = "idle"
    /\ all_combos = <<>>
    /\ pidx = 0
    /\ images = <<>>
    /\ projLog = <<>>
    /\ fl = <<>>
    /\ sl = <<>>
    /\ run = 0
    /\ insFlagged = EmptyBag
    /\ insTrends = EmptyBag
    /\ before = <<>>
    /\ results = <<>>
    /\ ParIdle
    /\ ClearIdle

NextIngest ==
    \/ PopulateA
    \/ PopulateB
    \/ PopulateDone
    \/ \E f \in Catalogue : InsertStart(f)
    \/ \E f \in Catalogue : InsertCheck(f)
    \/ \E f \in Catalogue : InsertCommit(f)
    \/ \E f \in Catalogue : InsertBlank(f)
    \/ \E f \in Catalogue : InsertMissing(f)

\* the two passes of ingest_all over fuv_primary_headers, the readers failing
\* at will
SpecIngest == InitIngest /\ [][NextIngest]_vars

(***************************************************************************)
(* Vocabulary of the properties                                            *)
(***************************************************************************)
Started(t) == t.pc \notin {"idle", "queued"}

\* the rows of bag b that carry combination c
RowsOf(b, c) ==
    LET S == {r \in BagToSet(b) : r.segment = c[1] /\ r.dethv = c[2]}
    IN [r \in S |-> b[r]]

\* how many rows of bag b carry combination c and superpixel xy
CountAt(b, c, xy) ==
    LET S == {r \in BagToSet(b) :
                 r.segment = c[1] /\ r.dethv = c[2] /\ r.x = xy[1] /\ r.y = xy[2]}
    IN BagCardinality([r \in S |-> b[r]])

\* positions of the Gain rows of combination c at superpixel xy
SamplesAt(c, xy) ==
    {i \in 1..Len(gain) : /\ gain[i].segment = c[1] /\ gain[i].dethv = c[2]
                           /\ gain[i].x = xy[1] /\ gain[i].y = xy[2]}

SuperpixelsOf(c) ==
    {<<gain[i].x, gain[i].y>> : i \in {j \in 1..Len(gain) :
        gain[j].segment = c[1] /\ gain[j].dethv = c[2]}}

\* samples measure_slopes may fit: gain above 0, taken after MJD 55197
ValidAt(c, xy) == {i \in SamplesAt(c, xy) : gain[i].gain > 0 /\ gain[i].expstart > 55197}

\* samples at or below gain 3.0 (6 half units) taken after MJD 55197
LowAt(c, xy) == {i \in SamplesAt(c, xy) : gain[i].gain <= 6 /\ gain[i].expstart > 55197}

\* samples that make find_flagged look at a superpixel: gain <= 3.0, counts >= 30
TrustedLowAt(c, xy) == {i \in SamplesAt(c, xy) : gain[i].gain <= 6 /\ gain[i].counts >= 30}

InsideBand(y) == 400 \div Y_BINNING <= y /\ y <= 600 \div Y_BINNING

\* the rows measure_slopes commits for the first k superpixels of its list
RECURSIVE SlopePrefix(_, _, _)
SlopePrefix(c, coords, k) ==
    IF k = 0 THEN EmptyBag
    ELSE SlopePrefix(c, coords, k - 1)
         (+) BagOfSeq(SlopeBody(gain, c[1], c[2], coords[k][1], coords[k][2], zeroDerivRaises))

\* time_fitting applied to the valid samples of a superpixel, as measure_slopes does
FitAt(c, xy) ==
    LET sorted == SortByGain(SlopeResults(gain, c[1], c[2], xy[1], xy[2]))
    IN time_fitting(Column(sorted, "expstart"), Column(sorted, "gain"))

\* the Gain rows of combination c, in table order
PartitionOf(c) == SelectSeq(gain, LAMBDA r : r.segment = c[1] /\ r.dethv = c[2])

\* the rows find_flagged commits for the first k superpixels of its list, on table g
RECURSIVE FlaggedPrefix(_, _, _, _)
FlaggedPrefix(g, c, coords, k) ==
    IF k = 0 THEN EmptyBag
    ELSE FlaggedPrefix(g, c, coords, k - 1)
         (+) BagOfSeq(FlaggedBody(g, c[1], c[2], coords[k][1], coords[k][2]))

\* the rows measure_slopes commits for the first k superpixels of its list, on table g
RECURSIVE SlopePrefixOn(_, _, _, _)
SlopePrefixOn(g, c, coords, k) ==
    IF k = 0 THEN EmptyBag
    ELSE SlopePrefixOn(g, c, coords, k - 1)
         (+) BagOfSeq(SlopeBody(g, c[1], c[2], coords[k][1], coords[k][2], zeroDerivRaises))

\* what a worker leaves for combination c when it is given c's samples alone
FlaggedAlone(c) ==
    LET g == PartitionOf(c)
        coords == FlaggedCoords(g, c[1], c[2])
    IN FlaggedPrefix(g, c, coords, Len(coords))

SlopesAlone(c) ==
    LET g == PartitionOf(c)
        coords == SlopeCoords(g, c[1], c[2])
    IN SlopePrefixOn(g, c, coords, Len(coords))

RECURSIVE BagSum(_, _)
BagSum(F(_), cs) == IF cs = <<>> THEN EmptyBag ELSE F(Head(cs)) (+) BagSum(F, Tail(cs))

\* a/b < c/d for a, c >= 0 and b, d > 0, by whole parts and remainders
RECURSIVE FracLess(_, _, _, _)
FracLess(a, b, c, d) ==
    IF a \div b # c \div d THEN a \div b < c \div d
    ELSE IF c % d = 0 THEN FALSE
    ELSE IF a % b = 0 THEN TRUE
    ELSE FracLess(d, c % d, b, a % b)

\* p <= q for rationals p, q >= 0
RLeq(p, q) == ~FracLess(q.num, q.den, p.num, p.den)

RECURSIVE RSum(_)
RSum(s) == IF s = <<>> THEN RInt(0) ELSE RAdd(Head(s), RSum(Tail(s)))

\* y - (slope*x + intercept) at every point
Residuals(p, x, y) ==
    [i \in 1..Len(x) |-> RSub(RInt(y[i]), RAdd(RMul(p.slope, RInt(x[i])), p.intercept))]

\* the square of the (population) standard deviation of the values of s
Variance(s) ==
    LET n    == RInt(Len(s))
        mean == RDiv(RSum(s), n)
    IN RSub(RDiv(RSum([i \in 1..Len(s) |-> RMul(s[i], s[i])]), n), RMul(mean, mean))

\* the samples measure_slopes hands to time_fitting for a superpixel
FitInput(c, xy) ==
    LET sorted == SortByGain(SlopeResults(gain, c[1], c[2], xy[1], xy[2]))
    IN [x |-> Column(sorted, "expstart"), y |-> Column(sorted, "gain")]

\* how many points time_fitting retained
Retained(fit) == Len(SelectSeq(fit.include_index, LAMBDA b : b))

(***************************************************************************)
(* Properties                                                              *)
(***************************************************************************)
\* C1: every completed run of time_trends on the unchanged Gain table leaves
\* the same Flagged and GainTrends rows as the completed run before it,
\* whatever the two tables held at the start.
C1_Idempotent == \A i \in 1..Len(results) : results[i] = results[1]

C1_Witness ==
    /\ Len(results) >= 2
    /\ results[2].flagged # EmptyBag
    /\ results[2].trends # EmptyBag

\* C2: from the moment find_flagged is dispatched to the end of the run, both
\* tables hold exactly the rows committed by workers of this run: no row the
\* run found at its start is left.
C2_NoStaleRows ==
    orch \in {"flagging", "slopes", "projecting", "done"}
        => flagged = insFlagged /\ trends = insTrends

C2_Witness ==
    /\ orch = "done"
    /\ before.flagged # EmptyBag
    /\ before.trends # EmptyBag
    /\ flagged # EmptyBag
    /\ trends # EmptyBag

\* C3: whenever a measure_slopes task has started, or is queued, every
\* find_flagged task of the run has returned.
C3_FlaggedBeforeSlopes ==
    (\E c \in Universe : sl[c].pc # "idle")
        => \A c \in Universe : InCombos(c) => fl[c].pc = "done"

C3_Witness ==
    /\ Len(all_combos) >= 2
    /\ \E c \in Universe : sl[c].pc = "added"

\* C4: a task that raised for one combination never ends the run: time_trends
\* is not aborted by it.
C4_FailureIsolated ==
    \A c \in Universe : (fl[c].pc = "raised" \/ sl[c].pc = "raised") => orch # "aborted"

\* C5: at every moment of a measure_slopes task, and after it crashed, the
\* committed GainTrends rows of its combination are exactly the rows of the
\* superpixels it went through before the one it is at.
C5_CommittedPrefix ==
    \A c \in Universe :
        Started(sl[c]) => RowsOf(trends, c) = SlopePrefix(c, sl[c].coords, sl[c].idx - 1)

\* a task crashed on its second superpixel, with the row of the first
\* committed and a row for the second in reach
C5_Witness ==
    \E c \in Universe :
        /\ sl[c].pc = "crashed"
        /\ sl[c].idx = 2
        /\ RowsOf(trends, c) # EmptyBag
        /\ SlopePrefix(c, sl[c].coords, 2) # SlopePrefix(c, sl[c].coords, 1)

\* C6 as stated: after the run, an in-band superpixel with exactly 5 valid
\* samples has no GainTrends row and one with exactly 6 has exactly one.
C6_AsStated ==
    orch = "done" =>
        \A c \in Universe : \A xy \in SuperpixelsOf(c) :
            InCombos(c) /\ InsideBand(xy[2]) =>
                /\ Cardinality(ValidAt(c, xy)) = 5 => CountAt(trends, c, xy) = 0
                /\ Cardinality(ValidAt(c, xy)) = 6 => CountAt(trends, c, xy) = 1

\* C6 amended: after the run, an in-band superpixel with exactly 5 valid
\* samples has no GainTrends row; one with exactly 6 has exactly one row when
\* time_fitting succeeds on them and none when it fails.
C6_SampleBoundary ==
    orch = "done" =>
        \A c \in Universe : \A xy \in SuperpixelsOf(c) :
            InCombos(c) /\ InsideBand(xy[2]) =>
                /\ Cardinality(ValidAt(c, xy)) = 5 => CountAt(trends, c, xy) = 0
                /\ Cardinality(ValidAt(c, xy)) = 6 =>
                       CountAt(trends, c, xy) = IF FitAt(c, xy).success THEN 1 ELSE 0

C6_Witness ==
    /\ orch = "done"
    /\ \E c \in Universe : \E xy \in SuperpixelsOf(c) :
           /\ InsideBand(xy[2])
           /\ Cardinality(ValidAt(c, xy)) = 6
           /\ CountAt(trends, c, xy) = 1

\* C7: the superpixels a find_flagged task goes through are exactly those with
\* a sample of gain <= 3.0 and counts >= 30 in its combination, and no other
\* superpixel gets a Flagged row.
C7_Considered ==
    \A c \in Universe :
        /\ Started(fl[c]) =>
               {fl[c].coords[i] : i \in 1..Len(fl[c].coords)}
                   = {xy \in SuperpixelsOf(c) : TrustedLowAt(c, xy) # {}}
        /\ \A xy \in SuperpixelsOf(c) :
               TrustedLowAt(c, xy) = {} => CountAt(insFlagged, c, xy) = 0

\* the only trusted low sample has gain exactly 3.0 and counts exactly 30, and
\* the superpixel is flagged
C7_Witness ==
    /\ orch = "done"
    /\ \E xy \in SuperpixelsOf(A167) :
           /\ CountAt(flagged, A167, xy) = 1
           /\ TrustedLowAt(A167, xy) # {}
           /\ \A i \in TrustedLowAt(A167, xy) : gain[i].gain = 6 /\ gain[i].counts = 30

\* C8: no row written by find_flagged or measure_slopes has y below
\* 400 div Y_BINNING or above 600 div Y_BINNING; a superpixel on either edge
\* is not excluded: with a trusted low sample after the era cut it is flagged.
C8_Band ==
    /\ \A r \in BagToSet(insFlagged) \cup BagToSet(insTrends) : InsideBand(r.y)
    /\ orch = "done" =>
           \A c \in Universe : \A xy \in SuperpixelsOf(c) :
               /\ InCombos(c)
               /\ xy[2] \in {400 \div Y_BINNING, 600 \div Y_BINNING}
               /\ TrustedLowAt(c, xy) \cap LowAt(c, xy) # {}
               => CountAt(flagged, c, xy) = 1

\* rows on the upper edge in both tables, from a table that has rows
C8_Witness ==
    /\ orch = "done"
    /\ \E r \in BagToSet(flagged) : r.y = 600 \div Y_BINNING
    /\ \E r \in BagToSet(trends) : r.y = 600 \div Y_BINNING

\* C9: after the run a superpixel has a Flagged row only if it has a sample
\* of gain <= 3.0 after the era cut, and the row's mjd is the earliest
\* expstart of those samples; the six-sample scenario is flagged at 55400.
C9_EarliestLow ==
    orch = "done" =>
        /\ \A c \in Universe : \A xy \in SuperpixelsOf(c) :
               /\ LowAt(c, xy) = {} => CountAt(flagged, c, xy) = 0
               /\ \A r \in BagToSet(RowsOf(flagged, c)) :
                      r.x = xy[1] /\ r.y = xy[2] =>
                          /\ LowAt(c, xy) # {}
                          /\ r.mjd.e5 = 0 /\ ~r.mjd.neg
                          /\ \E i \in LowAt(c, xy) : gain[i].expstart = r.mjd.int
                          /\ \A i \in LowAt(c, xy) : gain[i].expstart >= r.mjd.int
        /\ gain = Pixel(A167, 2, BandLo, Scenario) =>
               flagged = SetToBag({[mjd |-> Dec(55400), segment |-> "FUVA", dethv |-> "167",
                                    x |-> 2, y |-> BandLo]})

\* a flagged superpixel with two low samples after the era cut
C9_Witness ==
    /\ orch = "done"
    /\ \E xy \in SuperpixelsOf(A167) :
           /\ CountAt(flagged, A167, xy) = 1
           /\ Cardinality(LowAt(A167, xy)) >= 2

\* C10: after the run, every in-band superpixel with more than 5 valid samples
\* whose fitted line is flat (slope 0) has a GainTrends row, and its mjd is 0.
C10_FlatGivesSentinel ==
    orch = "done" =>
        \A c \in Universe : \A xy \in SuperpixelsOf(c) :
            /\ InCombos(c)
            /\ InsideBand(xy[2])
            /\ Cardinality(ValidAt(c, xy)) > 5
            /\ LET fit == FitAt(c, xy)
               IN IF fit.success THEN fit.parameters.slope.num = 0
                  ELSE fit.first.slope.num = 0
            => /\ CountAt(trends, c, xy) = 1
               /\ \A r \in BagToSet(RowsOf(trends, c)) :
                      r.x = xy[1] /\ r.y = xy[2] => DecIsZero(r.mjd)

\* C11: after the run on the six samples (55200, 4.0), (55300, 3.5), ...,
\* (55700, 1.5) of one in-band superpixel, all with counts 50, GainTrends holds
\* exactly one row, for that superpixel, with a negative slope and an mjd from
\* 55400 to 55500.
C11_ScenarioTrend ==
    orch = "done" =>
        \A y \in {BandLo, BandHi} :
            gain = Pixel(A167, 2, y, Scenario) =>
                /\ BagCardinality(trends) = 1
                /\ \A r \in BagToSet(trends) :
                       /\ <<r.segment, r.dethv, r.x, r.y>> = <<"FUVA", "167", 2, y>>
                       /\ r.slope.neg
                       /\ ~r.mjd.neg
                       /\ r.mjd.int >= 55400
                       /\ r.mjd.int < 55500 \/ (r.mjd.int = 55500 /\ r.mjd.e5 = 0)

C11_Witness ==
    /\ orch = "done"
    /\ gain = Pixel(A167, 2, BandLo, Scenario)
    /\ trends # EmptyBag

\* C12: after a pass of the projection loop, every pixel (r, col) of the
\* three images holds slope, intercept and mjd of the GainTrends row of the
\* combination with y = r div Y_BINNING and x = col div X_BINNING, and 0 when
\* there is no such row; a single row at (x=2, y=50) with slope -0.01 gives
\* -0.01 on rows 100..101, columns 16..23 of the slope image and 0 elsewhere.
C12_Reconstruction ==
    orch \in {"projecting", "done"} /\ pidx > 1 =>
        LET c == all_combos[pidx - 1]
            R == {r \in BagToSet(trends) : r.segment = c[1] /\ r.dethv = c[2]}
        IN /\ \A p \in Pixels :
                  LET S == {r \in R : r.y = p[1] \div Y_BINNING /\ r.x = p[2] \div X_BINNING}
                  IN /\ S = {} => /\ images.slope_image[p] = Dec(0)
                                  /\ images.intercept_image[p] = Dec(0)
                                  /\ images.bad_image[p] = Dec(0)
                     /\ \A r \in S : /\ images.slope_image[p] = r.slope
                                      /\ images.intercept_image[p] = r.intercept
                                      /\ images.bad_image[p] = r.mjd
           /\ (\E r \in R : R = {r} /\ r.x = 2 /\ r.y = 50 /\ r.slope = Hundredth) =>
                  \A p \in Pixels :
                      images.slope_image[p] =
                          IF p[1] \in 100..101 /\ p[2] \in 16..23 THEN Hundredth ELSE Dec(0)

\* the single row at (2, 50) has been painted: the four corners of its block
\* hold -0.01 and the pixels around them 0
C12_Witness ==
    /\ pidx > 1
    /\ {r \in BagToSet(trends) : r.segment = "FUVA"} =
           {TrendRow(A167, 2, 50, Hundredth, Dec(560), Dec(55700))}
    /\ all_combos[pidx - 1] = A167
    /\ \A p \in {100, 101} \X {16, 23} : images.slope_image[p] = Hundredth
    /\ \A p \in {99, 102} \X {15, 24} : images.slope_image[p] = Dec(0)

\* C13: when the run is over, the projection loop has made one pass per
\* enumerated combination, in order; write_projection was called in the pass
\* exactly when the combination has a GainTrends row whose stored slope is not
\* zero, and no file that was not there before the run belongs to a
\* combination without such a row.
C13_WrittenIffSlope ==
    orch = "done" =>
        /\ Len(projLog) = Len(all_combos)
        /\ \A i \in 1..Len(all_combos) :
               LET c == all_combos[i]
                   nonzero == \E r \in BagToSet(trends) :
                                  r.segment = c[1] /\ r.dethv = c[2] /\ r.slope # Dec(0)
               IN /\ projLog[i].combo = c
                  /\ (projLog[i].outcome # "skipped") <=> nonzero
                  /\ ~nonzero => ProjName(c) \notin files \ before.files

\* a run in which one combination has only a row of slope 0 and is passed
\* over, and the other gets its file
C13_Witness ==
    /\ orch = "done"
    /\ \E i, j \in 1..Len(projLog) :
           /\ projLog[i].outcome = "skipped"
           /\ \E r \in BagToSet(trends) : r.segment = projLog[i].combo[1]
           /\ projLog[j].outcome = "written"

\* C14: whatever the order in which the pool ran and finished the tasks, a
\* completed run leaves in Flagged and GainTrends, for each enumerated
\* combination, the rows its worker computes from the samples of that
\* combination alone; and every row a worker holds or has committed carries
\* the worker's own combination.
C14_OrderFree ==
    /\ orch = "done" =>
           /\ flagged = BagSum(FlaggedAlone, all_combos)
           /\ trends = BagSum(SlopesAlone, all_combos)
    /\ \A c \in Universe :
           /\ \A i \in 1..Len(fl[c].pend) :
                  fl[c].pend[i].segment = c[1] /\ fl[c].pend[i].dethv = c[2]
           /\ \A i \in 1..Len(sl[c].pend) :
                  sl[c].pend[i].segment = c[1] /\ sl[c].pend[i].dethv = c[2]

\* two workers at work at once, the second to start already holding a row
\* while the first has not committed
C14_Witness ==
    /\ sl[A167].pc = "added"
    /\ sl[B175].pc = "added"
    /\ fl[A167].coords # <<>>
    /\ fl[B175].coords # <<>>

\* C15: a failure of write_projection for one combination never ends the
\* run: time_trends is not aborted in a pass in which write_projection failed.
C15_SerializationCaught ==
    \A i \in 1..Len(projLog) :
        projLog[i].outcome \in {"caught", "raised"} => orch # "aborted"

\* C16: after a completed run, every projection file in the output directory
\* was written by a pass of this run.
C16_OnlyFreshArtifacts ==
    orch = "done" =>
        \A f \in files :
            f.kind = "proj_bad" =>
                \E i \in 1..Len(projLog) :
                    projLog[i].outcome = "written" /\ ProjName(projLog[i].combo) = f

\* C17: after a completed run neither Flagged nor GainTrends holds two rows
\* with the same (segment, dethv, x, y).
C17_OneRowPerSuperpixel ==
    orch = "done" =>
        /\ \A c \in Universe : \A xy \in SuperpixelsOf(c) :
               CountAt(flagged, c, xy) <= 1 /\ CountAt(trends, c, xy) <= 1
        /\ BagCardinality(flagged) =
               Cardinality({<<r.segment, r.dethv, r.x, r.y>> : r \in BagToSet(flagged)})
        /\ BagCardinality(trends) =
               Cardinality({<<r.segment, r.dethv, r.x, r.y>> : r \in BagToSet(trends)})

\* a completed run with rows for several superpixels in both tables
C17_Witness ==
    /\ orch = "done"
    /\ BagCardinality(flagged) >= 3
    /\ BagCardinality(trends) >= 3

\* C18: for every superpixel whose samples went through time_fitting with
\* success, the standard deviation of the residuals of the refit, taken on the
\* retained points, is not larger than the standard deviation of the residuals
\* of the first fit, taken on all points.
C18_ClipMonotone ==
    orch = "done" =>
        \A c \in Universe : \A xy \in SuperpixelsOf(c) :
            InCombos(c) /\ InsideBand(xy[2]) /\ Cardinality(ValidAt(c, xy)) > 5 =>
                LET in  == FitInput(c, xy)
                    fit == time_fitting(in.x, in.y)
                IN fit.success =>
                       RLeq(Variance(Residuals(fit.parameters,
                                               Select(in.x, fit.include_index),
                                               Select(in.y, fit.include_index))),
                            Variance(Residuals(fit.first, in.x, in.y)))

\* a successful fit in which the clip removed points and the first fit did
\* not pass through every point
C18_Witness ==
    /\ orch = "done"
    /\ \E c \in Universe : \E xy \in SuperpixelsOf(c) :
           /\ InCombos(c) /\ InsideBand(xy[2]) /\ Cardinality(ValidAt(c, xy)) > 5
           /\ LET in  == FitInput(c, xy)
                  fit == time_fitting(in.x, in.y)
              IN /\ fit.success
                 /\ Retained(fit) < Len(in.x)
                 /\ CountAt(trends, c, xy) = 1
                 /\ Variance(Residuals(fit.parameters,
                                        Select(in.x, fit.include_index),
                                        Select(in.y, fit.include_index))).num > 0

\* C19: the points time_fitting retains are exactly those whose absolute
\* residual from the first line is below 1.5 times the standard deviation of
\* the residuals of that first fit.
C19_ResidualClip ==
    orch = "done" =>
        \A c \in Universe : \A xy \in SuperpixelsOf(c) :
            InCombos(c) /\ InsideBand(xy[2]) /\ Cardinality(ValidAt(c, xy)) > 5 =>
                LET in  == FitInput(c, xy)
                    fit == time_fitting(in.x, in.y)
                    res == Residuals(fit.first, in.x, in.y)
                    var == Variance(res)
                IN \A i \in 1..Len(res) :
                       fit.include_index[i] <=>
                           LET lhs == RMul(RInt(4), RMul(res[i], res[i]))
                               rhs == RMul(RInt(9), var)
                           IN FracLess(lhs.num, lhs.den, rhs.num, rhs.den)

\* C20: after the run, for every in-band superpixel that reached
\* time_fitting: with fewer than 4 retained points the fit has failed and the
\* superpixel has no GainTrends row, with 4 or more it has succeeded and the
\* superpixel has one row; and the task has gone through its whole list, so
\* that a superpixel after a failed one is treated like any other.
C20_TooFewAfterClip ==
    orch = "done" =>
        \A c \in Universe :
            InCombos(c) =>
                /\ sl[c].pc = "done"
                /\ sl[c].idx = Len(sl[c].coords) + 1
                /\ {sl[c].coords[i] : i \in 1..Len(sl[c].coords)} = SuperpixelsOf(c)
                /\ \A xy \in SuperpixelsOf(c) :
                       InsideBand(xy[2]) /\ Cardinality(ValidAt(c, xy)) > 5 =>
                           LET in  == FitInput(c, xy)
                               fit == time_fitting(in.x, in.y)
                           IN /\ Retained(fit) < 4 => ~fit.success /\ CountAt(trends, c, xy) = 0
                              /\ Retained(fit) >= 4 => fit.success /\ CountAt(trends, c, xy) = 1

\* the fit failed on the first superpixel of the list for want of retained
\* points, and the second superpixel has its row
C20_Witness ==
    /\ orch = "done"
    /\ Len(sl[A167].coords) = 2
    /\ LET first  == sl[A167].coords[1]
           second == sl[A167].coords[2]
           in     == FitInput(A167, first)
       IN /\ Len(in.x) > 5
          /\ Retained(time_fitting(in.x, in.y)) < 4
          /\ CountAt(trends, A167, first) = 0
          /\ CountAt(trends, A167, second) = 1


\* samples of combination c at superpixel xy taken at MJD 55197 or later
FromEraAt(c, xy) == {i \in SamplesAt(c, xy) : gain[i].expstart >= 55197}

\* time_fitting applied to the samples of positive gain taken at MJD 55197 or later
FitFromEra(c, xy) ==
    LET sorted == SortByGain(SelectSeq(PartitionOf(c), LAMBDA r :
                      r.x = xy[1] /\ r.y = xy[2] /\ r.gain > 0 /\ r.expstart >= 55197))
    IN time_fitting(Column(sorted, "expstart"), Column(sorted, "gain"))

\* C21: the samples used for a superpixel are exactly those with expstart
\* 55197 or later: after the run, the Flagged row of an examined in-band
\* superpixel is dated at the earliest sample of gain <= 3.0 among them (and
\* there is no row when there is none), and its GainTrends row exists exactly
\* when more than 5 of them have positive gain and time_fitting succeeds on
\* those.
C21_EraInclusive ==
    orch = "done" =>
        \A c \in Universe : \A xy \in SuperpixelsOf(c) :
            InCombos(c) /\ InsideBand(xy[2]) =>
                LET low   == {i \in FromEraAt(c, xy) : gain[i].gain <= 6}
                    valid == {i \in FromEraAt(c, xy) : gain[i].gain > 0}
                IN /\ TrustedLowAt(c, xy) # {} =>
                          /\ low = {} => CountAt(flagged, c, xy) = 0
                          /\ low # {} =>
                                 \E r \in BagToSet(RowsOf(flagged, c)) :
                                     /\ r.x = xy[1] /\ r.y = xy[2]
                                     /\ \E i \in low : gain[i].expstart = r.mjd.int
                                     /\ \A i \in low : gain[i].expstart >= r.mjd.int
                   /\ CountAt(trends, c, xy) =
                          IF Cardinality(valid) > 5 /\ FitFromEra(c, xy).success THEN 1 ELSE 0


\* combinations present in the Gain table with neither field NULL or 'None'
Eligible ==
    {c \in Universe : /\ PartitionOf(c) # <<>>
                      /\ c[1] \notin {NULL, "None"}
                      /\ c[2] \notin {NULL, "None"}}

\* C22: in a call of time_trends the combinations handed to the pool are the
\* eligible ones, each listed once; a find_flagged task exists for exactly
\* those from the first dispatch on, a measure_slopes task for exactly those
\* from the second dispatch on and for none before, and a task is queued only
\* by its dispatch, once in the call.
C22_DispatchedOnce ==
    /\ [](/\ orch \notin {"idle", "cleared"} =>
                /\ {all_combos[i] : i \in 1..Len(all_combos)} = Eligible
                /\ Len(all_combos) = Cardinality(Eligible)
                /\ \A c \in Universe : (fl[c].pc # "idle") = (c \in Eligible)
          /\ orch \in {"slopes", "projecting", "done"} =>
                \A c \in Universe : (sl[c].pc # "idle") = (c \in Eligible)
          /\ orch \in {"idle", "cleared", "flagging"} =>
                \A c \in Universe : sl[c].pc = "idle"
          /\ \A c \in Universe : sl[c].pc # "idle" => c \in Eligible)
    /\ [][\A c \in Universe :
              /\ fl'[c].pc = "queued" => fl[c].pc \in {"idle", "queued"}
              /\ sl'[c].pc = "queued" => sl[c].pc \in {"idle", "queued"}
              /\ fl[c].pc # "queued" /\ fl'[c].pc = "queued" => orch = "cleared"
              /\ sl[c].pc # "queued" /\ sl'[c].pc = "queued" => orch = "flagging"]_vars

\* a completed call on a table that also holds NULL and 'None' combinations:
\* both tasks of the two eligible combinations were run
C22_Witness ==
    /\ orch = "done"
    /\ Cardinality(Eligible) = 2
    /\ \E i \in 1..Len(gain) : gain[i].dethv = NULL
    /\ \E i \in 1..Len(gain) : gain[i].segment = "None"
    /\ \A c \in Eligible : fl[c].pc = "done" /\ sl[c].pc = "done"


\* the rows in other orders: every rotation of the sequence and of its reverse
Presentations(rows) ==
    LET n == Len(rows)
    IN {[i \in 1..n |-> rows[((i + k - 1) % n) + 1]] : k \in 0..(n - 1)}
       \cup {[i \in 1..n |-> rows[n - ((i + k - 1) % n)]] : k \in 0..(n - 1)}

\* time_fitting on rows as they are presented
FitOf(rows) == time_fitting(Column(rows, "expstart"), Column(rows, "gain"))

\* the (expstart, gain) pairs time_fitting retains of rows, as a bag
RetainedPairs(rows) ==
    BagOfSeq(Select([i \in 1..Len(rows) |-> <<rows[i].expstart, rows[i].gain>>],
                    FitOf(rows).include_index))

\* the outcome of time_fitting without the positions of the points
Outcome(rows) ==
    LET fit == FitOf(rows)
    IN [success |-> fit.success, first |-> fit.first, retained |-> RetainedPairs(rows),
        parameters |-> IF fit.success THEN fit.parameters ELSE <<>>]

\* C23 as stated: there is a set of samples whose retained subset and fitted
\* line change when the same pairs are presented to time_fitting in another
\* order than by ascending gain; looked for, once a run has completed, among
\* the tables of one superpixel.
C23_AsStated ==
    orch = "done" =>
    \E g \in SlopeTables \cup PairTables \cup BandTables :
        LET samples == SlopeResults(g, g[1].segment, g[1].dethv, g[1].x, g[1].y)
        IN /\ Len(samples) > 5
           /\ \E rows \in Presentations(samples) : Outcome(rows) # Outcome(SortByGain(samples))

\* C23 amended: after the run, for every fitted in-band superpixel the
\* retained pairs, the first line and the refitted line are the same whether
\* its samples are presented by ascending gain, in table order, reversed or
\* rotated, and the GainTrends row holds the slope and intercept any of these
\* presentations gives.
C23_OrderIrrelevant ==
    orch = "done" =>
        \A c \in Universe : \A xy \in SuperpixelsOf(c) :
            InCombos(c) /\ InsideBand(xy[2]) /\ Cardinality(ValidAt(c, xy)) > 5 =>
                LET samples == SlopeResults(gain, c[1], c[2], xy[1], xy[2])
                    sorted  == Outcome(SortByGain(samples))
                IN \A rows \in Presentations(samples) :
                       LET out == Outcome(rows)
                       IN /\ out = sorted
                          /\ CountAt(trends, c, xy) = IF out.success THEN 1 ELSE 0
                          /\ \A r \in BagToSet(RowsOf(trends, c)) :
                                 r.x = xy[1] /\ r.y = xy[2] =>
                                     /\ r.slope = Round5(InGainUnits(out.parameters.slope))
                                     /\ r.intercept = Round5(InGainUnits(out.parameters.intercept))

\* a fitted superpixel whose samples are not in gain order in the table and
\* of which the clip removed one
C23_Witness ==
    /\ orch = "done"
    /\ \E xy \in SuperpixelsOf(A167) :
           LET samples == SlopeResults(gain, "FUVA", "167", xy[1], xy[2])
           IN /\ CountAt(trends, A167, xy) = 1
              /\ Len(samples) > 5
              /\ samples # SortByGain(samples)
              /\ BagCardinality(RetainedPairs(samples)) < Len(samples)


\* seeds for the Newton iteration besides the largest gain: 0, 1, MJD 55197, -3.5
Seeds == {RInt(0), RInt(1), RInt(EraStart), Rat(0 - 7, 2)}

\* C24: after the run, for every GainTrends row whose refitted slope is not 0
\* the Newton iteration from the largest gain converges within 2 of its 1000
\* iterations, the row's mjd is (3 - intercept) / slope rounded to 5 places,
\* and the iteration gives the same date from every other seed; a row holds
\* mjd 0 only when the iteration did not converge.
C24_NewtonCrossing ==
    orch = "done" =>
        \A c \in Universe : \A r \in BagToSet(RowsOf(trends, c)) :
            LET in   == FitInput(c, <<r.x, r.y>>)
                p    == time_fitting(in.x, in.y).parameters
                seed == InGainUnits(RInt(in.y[Len(in.y)]))
                res  == newton(p.slope, p.intercept, seed, 0, zeroDerivRaises)
            IN /\ \A i \in 1..Len(in.y) : in.y[i] <= in.y[Len(in.y)]
               /\ p.slope.num # 0 =>
                      /\ res.converged
                      /\ res.iters <= 2
                      /\ res.iters < MaxIter
                      /\ r.mjd = Round5(RDiv(RSub(RInt(HalfUnits(3)), p.intercept), p.slope))
                      /\ \A s \in Seeds :
                             LET other == newton(p.slope, p.intercept, s, 0, zeroDerivRaises)
                             IN other.converged /\ other.iters <= 2 /\ other.value = res.value
               /\ DecIsZero(r.mjd) => ~res.converged

\* a row of falling gain whose date is neither the sentinel nor the seed
C24_Witness ==
    /\ orch = "done"
    /\ \E r \in BagToSet(trends) :
           /\ r.slope.neg
           /\ r.mjd.int > EraStart
           /\ r.mjd.e5 # 0


\* C25: from the moment time_trends emptied the tables, the committed Flagged
\* rows of a combination are none until its find_flagged task has committed
\* and the complete result of the combination from then on; a task that
\* crashed or raised leaves none, however many superpixels it went through.
C25_AllOrNothing ==
    orch # "idle" =>
        \A c \in Universe :
            RowsOf(flagged, c) =
                IF fl[c].pc = "done"
                THEN FlaggedPrefix(gain, c, fl[c].coords, Len(fl[c].coords))
                ELSE EmptyBag

\* a task crashed after it had found a row for its first superpixel
C25_Witness ==
    \E c \in Universe :
        /\ fl[c].pc = "crashed"
        /\ fl[c].idx >= 2
        /\ FlaggedPrefix(gain, c, fl[c].coords, fl[c].idx - 1) # EmptyBag
        /\ RowsOf(flagged, c) = EmptyBag


\* C26 as stated: every Flagged row written by the run has a sample at its
\* combination and superpixel taken at the row's mjd with gain <= 3.0,
\* counts >= 30 and expstart after MJD 55197.
C26_AsStated ==
    orch # "idle" =>
        \A c \in Universe : \A r \in BagToSet(RowsOf(flagged, c)) :
            \E i \in SamplesAt(c, <<r.x, r.y>>) :
                /\ r.mjd = Dec(gain[i].expstart)
                /\ gain[i].gain <= 6
                /\ gain[i].counts >= 30
                /\ gain[i].expstart > 55197

\* C26 amended: every Flagged row written by the run has a sample at its
\* combination and superpixel taken at the row's mjd with gain <= 3.0 and
\* expstart after MJD 55197, whatever its counts, and the superpixel has a
\* sample with gain <= 3.0 and counts >= 30, whatever its date.
C26_BackedByLowSample ==
    orch # "idle" =>
        \A c \in Universe : \A r \in BagToSet(RowsOf(flagged, c)) :
            /\ \E i \in SamplesAt(c, <<r.x, r.y>>) :
                   /\ r.mjd = Dec(gain[i].expstart)
                   /\ gain[i].gain <= 6
                   /\ gain[i].expstart > 55197
            /\ \E i \in SamplesAt(c, <<r.x, r.y>>) :
                   gain[i].gain <= 6 /\ gain[i].counts >= 30

\* a row dated at a low sample of counts 29, the superpixel's trusted low
\* sample being a later one
C26_Witness ==
    /\ orch = "done"
    /\ \E r \in BagToSet(RowsOf(flagged, A167)) :
           /\ \A i \in SamplesAt(A167, <<r.x, r.y>>) :
                  r.mjd = Dec(gain[i].expstart) => gain[i].counts = 29
           /\ \E i \in TrustedLowAt(A167, <<r.x, r.y>>) : gain[i].expstart > r.mjd.int


\* C27: when the load of the machine stays below ncores - 1 from some moment
\* on, a call of parallelize that is waiting for the load to fall goes on to
\* size its pool.
C27_WaitEnds ==
    (<>[](~TooBusy(sysload, ncores))) => ((ppc = "sleeping") ~> (ppc = "pool"))

\* C28: every pool is created with at least 1 process, and with exactly 1
\* when the available cores times 0.25 round down to 0; mp.Pool is never
\* called with less.
C28_PoolNeverEmpty ==
    /\ ppc # "raised"
    /\ \A i \in 1..Len(pools) : pools[i] >= 1
    /\ ppc = "map" /\ Nprocs(ncores - Ceil(loadavg)) = 0 => pools[Len(pools)] = 1


\* the delete statements sent so far
Deletes == SelectSeq(dbLog, LAMBDA e : e.op = "delete")

\* C29: without nuke the database stays as the call found it and no statement
\* is sent to it, clear_all_databases ending the process before clean_slate
\* drops or creates anything; with nuke the tables are deleted from in the
\* reverse of their dependency order, each once, every table is attempted
\* whichever deletes failed, and each table whose delete succeeded is empty.
C29_NukeGuard ==
    /\ ~nuke =>
           /\ db = dbBefore
           /\ dbLog = <<>>
           /\ cpc \in {"called", "clear", "exited"}
    /\ nuke =>
           /\ Len(Deletes) <= Len(sorted_tables)
           /\ \A i \in 1..Len(Deletes) :
                  /\ Deletes[i].table = sorted_tables[Len(sorted_tables) + 1 - i]
                  /\ Deletes[i].ok => db[Deletes[i].table].rows = 0
                  /\ Deletes[i].table \in Children =>
                         \A k \in 1..i : Deletes[k].table # "all_files"
           /\ cpc \in {"drop", "create", "raised", "returned"} =>
                  Len(Deletes) = Len(sorted_tables)

\* clear_all_databases returned after its first delete failed, the two tables
\* after it emptied of rows they held
C29_Witness ==
    /\ nuke
    /\ cpc = "returned"
    /\ entry = "clear_all_databases"
    /\ Len(Deletes) = 3
    /\ ~Deletes[1].ok /\ Deletes[2].ok /\ Deletes[3].ok
    /\ dbBefore[Deletes[2].table].rows > 0 /\ db[Deletes[2].table].rows = 0
    /\ dbBefore["all_files"].rows > 0 /\ db["all_files"].rows = 0


\* C30: fuv_primary_headers never holds two rows with the same rootname.
C30_UniqueRootname ==
    \A r \in BagToSet(headers) :
        r.rootname # NULL =>
            /\ headers[r] = 1
            /\ \A q \in BagToSet(headers) : q.rootname = r.rootname => q = r

====
